---- MODULE Spec2Model ----
(***************************************************************************)
(* Model of the rdsys backend resource engine (package core): Hashring,    *)
(* Stencil, SplitHashring, Collection and BackendResources.                *)
(***************************************************************************)
EXTENDS Integers, Sequences, FiniteSets, TLC

(***************************************************************************)
(* Bounds of the model.                                                    *)
(***************************************************************************)
MaxUid == 3
MaxTime == 2

(***************************************************************************)
(* Resource event types (backend_resources.go, const block).               *)
(***************************************************************************)
ResourceUnchanged == 0
ResourceIsNew == 1
ResourceChanged == 2
ResourceIsGone == 3

(***************************************************************************)
(* Resources.  A resource is a value with the capability set the ring      *)
(* uses: Uid(), Oid(), Type(), Distributor(), Expiry().  The fields are    *)
(* independent, as in core.Dummy.                                          *)
(***************************************************************************)
Types == {"obfs4", "tblink", "vanilla"}
Pins == {"", "https", "moat", "none"}
Oids == {1, 2}
Expiries == {1, 2}

States == {"untested", "functional", "dysfunctional"}

Resources ==
    [uid : 1..MaxUid, oid : Oids, type : Types, dist : Pins,
     expiry : Expiries, state : States]

\* NewDummy(oid, uid) with the given type, pin and expiry; its test result
\* is StateFunctional.
NewDummy(o, u, ty, d, e) ==
    [uid |-> u, oid |-> o, type |-> ty, dist |-> d, expiry |-> e,
     state |-> "functional"]

\* Dummy.SetTest
SetTest(r, st) == [r EXCEPT !.state = st]

Uid(r) == r.uid
Oid(r) == r.oid
Type(r) == r.type
Distributor(r) == r.dist
Expiry(r) == r.expiry
TestResult(r) == [State |-> r.state]

VARIABLES
    hashnodes,       \* Collection: resource type -> nodes of its Hashring
    stencils,        \* Collection: resource type -> Stencil of its ring
    now,             \* the wall clock read by time.Now()
    rng,             \* the process-global generator of math/rand
    EventRecipients, \* BackendResources: distributor name -> EventRecipient
    chans,           \* the event channels: channel -> diffs not yet received
    call,            \* caller -> its position inside BackendResources.Add/Prune
    OnlyFunctional,  \* BackendResources.OnlyFunctional
    eval,            \* goroutine -> its position inside a stencil filter
    kraken,          \* the ingestion loop: its position and its metric
    dist,            \* the state of the distributor the specification is of
    ret              \* what the last operation was and what it returned

cfgVars == <<stencils, OnlyFunctional, eval, kraken, dist>>
backendVars == <<cfgVars, rng, EventRecipients, chans, call>>
vars == <<hashnodes, stencils, now, rng, EventRecipients, chans, call,
          OnlyFunctional, eval, kraken, dist, ret>>

(***************************************************************************)
(* Hashring                                                                *)
(***************************************************************************)
NewHashnode(k, r, t) == [hashkey |-> k, elem |-> r, lastUpdate |-> t]

\* sort.Search(n, f): the binary search of the Go library, on the 0-based
\* indices [i, j) of h, with f(x) == h[x].hashkey >= k.
RECURSIVE Search(_, _, _, _)
Search(h, k, i, j) ==
    IF i < j
    THEN LET m == (i + j) \div 2
         IN  IF ~(h[m + 1].hashkey >= k)
             THEN Search(h, k, m + 1, j)
             ELSE Search(h, k, i, m)
    ELSE i

\* getIndex returns a 0-based index and whether the key was found
\* (err == nil); -1 for the empty ring.
getIndex(h, k) ==
    IF Len(h) = 0
    THEN [i |-> -1, found |-> FALSE]
    ELSE LET s == Search(h, k, 0, Len(h))
             i == IF s >= Len(h) THEN 0 ELSE s
         IN  IF i < Len(h) /\ h[i + 1].hashkey = k
             THEN [i |-> i, found |-> TRUE]
             ELSE [i |-> i, found |-> FALSE]

\* Less of the sort interface.
Less(a, b) == a.hashkey < b.hashkey

\* sort.Sort(h): the nodes in ascending order of Less.
RECURSIVE InsertSorted(_, _)
InsertSorted(s, n) ==
    IF s = <<>> THEN <<n>>
    ELSE IF Less(n, s[Len(s)])
         THEN Append(InsertSorted(SubSeq(s, 1, Len(s) - 1), n), s[Len(s)])
         ELSE Append(s, n)

RECURSIVE SortNodes(_)
SortNodes_Unsorted(s) == s
SortNodes(s) ==
    IF s = <<>> THEN <<>>
    ELSE InsertSorted(SortNodes(SubSeq(s, 1, Len(s) - 1)), s[Len(s)])

\* Hashring.Add: [h |-> ring afterwards, err |-> error returned]
Add_Replace(h, r, t) ==
    LET g == getIndex(h, Uid(r))
    IN  IF g.found
        THEN [h |-> [h EXCEPT ![g.i + 1] = NewHashnode(Uid(r), r, t)],
              err |-> TRUE]
        ELSE [h |-> SortNodes(Append(h, NewHashnode(Uid(r), r, t))),
              err |-> FALSE]
Add_NoRefresh(h, r, t) ==
    LET g == getIndex(h, Uid(r))
    IN  IF g.found
        THEN [h |-> h, err |-> TRUE]
        ELSE [h |-> SortNodes(Append(h, NewHashnode(Uid(r), r, t))),
              err |-> FALSE]
Add(h, r, t) ==
    LET g == getIndex(h, Uid(r))
    IN  IF g.found
        THEN [h |-> [h EXCEPT ![g.i + 1].lastUpdate = t], err |-> TRUE]
        ELSE [h |-> SortNodes(Append(h, NewHashnode(Uid(r), r, t))),
              err |-> FALSE]

\* Hashring.AddOrUpdate: [h |-> ring afterwards, event |-> event code]
AddOrUpdate_NoReplace(h, r, t) ==
    LET g == getIndex(h, Uid(r))
    IN  IF g.found
        THEN [h |-> [h EXCEPT ![g.i + 1].lastUpdate = t],
              event |-> IF Oid(h[g.i + 1].elem) # Oid(r)
                        THEN ResourceChanged ELSE ResourceUnchanged]
        ELSE [h |-> SortNodes(Append(h, NewHashnode(Uid(r), r, t))),
              event |-> ResourceIsNew]
AddOrUpdate(h, r, t) ==
    LET g == getIndex(h, Uid(r))
    IN  IF g.found
        THEN IF Oid(h[g.i + 1].elem) # Oid(r)
             THEN [h |-> [h EXCEPT ![g.i + 1] =
                              [hashkey |-> @.hashkey, elem |-> r,
                               lastUpdate |-> t]],
                   event |-> ResourceChanged]
             ELSE [h |-> [h EXCEPT ![g.i + 1].lastUpdate = t],
                   event |-> ResourceUnchanged]
        ELSE [h |-> SortNodes(Append(h, NewHashnode(Uid(r), r, t))),
              event |-> ResourceIsNew]

\* Hashring.remove on the backing array arr whose first n cells are the
\* ring: append(leftPart, rightPart...) moves the cells after i one to the
\* left in place and leaves the cell at n as it was.
remove(arr, n, r) ==
    LET g == getIndex(SubSeq(arr, 1, n), Uid(r))
    IN  IF ~g.found
        THEN [arr |-> arr, n |-> n, err |-> TRUE]
        ELSE [arr |-> [j \in 1..Len(arr) |->
                          IF j >= g.i + 1 /\ j < n THEN arr[j + 1] ELSE arr[j]],
              n |-> n - 1, err |-> FALSE]

\* Hashring.Remove: [h |-> ring afterwards, err |-> error returned]
Remove(h, r) ==
    LET x == remove(h, Len(h), r)
    IN  [h |-> SubSeq(x.arr, 1, x.n), err |-> x.err]

\* The loop of Hashring.Prune: "for _, node := range h.hashnodes" walks the
\* cells 1..Len(arr) of the backing array of the slice it started with,
\* while remove() rewrites that array and shortens the ring to n cells.
RECURSIVE PruneLoop(_, _, _, _, _)
PruneLoop(idx, arr, n, pruned, t) ==
    IF idx > Len(arr)
    THEN [h |-> SubSeq(arr, 1, n), pruned |-> pruned]
    ELSE LET node == arr[idx]
         IN  IF t - node.lastUpdate > Expiry(node.elem)
             THEN LET x == remove(arr, n, node.elem)
                  IN  PruneLoop(idx + 1, x.arr, x.n,
                                Append(pruned, node.elem), t)
             ELSE PruneLoop(idx + 1, arr, n, pruned, t)

\* Hashring.Prune: [h |-> ring afterwards, pruned |-> resources returned]
Prune(h, t) == PruneLoop(1, h, Len(h), <<>>, t)

\* Hashring.GetAll: the resources of the ring, in ring order.
GetAll(h) == [i \in 1..Len(h) |-> h[i].elem]

(***************************************************************************)
(* The generator of math/rand that rand.Seed and rand.Intn share: its      *)
(* state is the seed last given and the number of values drawn since.      *)
(* RngValue(s, c) is value number c of Int31() after Seed(s). The stream   *)
(* of seed 1 is the library's; the streams of other seeds are not          *)
(* tabulated, and every resource that reaches the generator has Uid 1.     *)
(***************************************************************************)
Int32Max == 2147483647
RngStream ==
    <<1298498081, 2019727887, 1427131847, 939984059, 911902081,
      1474941318, 140954425, 336122540, 208240456, 646203300>>
RngValue(s, c) == CASE s = 1 -> RngStream[c + 1]

\* rand.Seed(s): the seed is taken modulo 2^31 - 1.
Seed(s) == [seed |-> s % Int32Max, drawn |-> 0]

\* Int31n(n): for a power of two the low bits of one value, otherwise the
\* first value not above max, modulo n.
IsPowerOfTwo(n) == \E k \in 0..30 : n = 2^k
RECURSIVE Int31n(_, _, _)
Int31n(g, n, max) ==
    LET v == RngValue(g.seed, g.drawn)
        next == [seed |-> g.seed, drawn |-> g.drawn + 1]
    IN  IF v > max THEN Int31n(next, n, max)
        ELSE [n |-> v % n, rng |-> next]

\* rand.Intn(n) on generator state g: [n |-> value, rng |-> state afterwards]
Intn(g, n) ==
    IF IsPowerOfTwo(n) THEN Int31n(g, n, Int32Max)
    ELSE Int31n(g, n, Int32Max - (((Int32Max % n) + 1) % n))

\* No resource: the nil that a lookup returns with its error.
NoResource == [nil |-> TRUE]

\* Hashring.Get: [res |-> resource returned, err |-> error returned]
Get_Exact(h, k) ==
    LET g == getIndex(h, k)
    IN  IF ~g.found THEN [res |-> NoResource, err |-> TRUE]
        ELSE [res |-> h[g.i + 1].elem, err |-> FALSE]
Get(h, k) ==
    LET g == getIndex(h, k)
    IN  IF ~g.found /\ g.i = -1 THEN [res |-> NoResource, err |-> TRUE]
        ELSE [res |-> h[g.i + 1].elem, err |-> FALSE]

\* The loop of GetMany for j up to num + i - 1.
RECURSIVE GetManyFrom(_, _, _, _)
GetManyFrom(h, j, end, resources) ==
    IF j < end
    THEN GetManyFrom(h, j + 1, end, Append(resources, h[(j % Len(h)) + 1].elem))
    ELSE resources

\* Hashring.GetMany: [res |-> resources returned, err |-> error returned]
GetMany_FromStart(h, k, num) ==
    IF num > Len(h) THEN [res |-> <<>>, err |-> TRUE]
    ELSE LET g == getIndex(h, k)
         IN  IF ~g.found /\ g.i = -1 THEN [res |-> <<>>, err |-> TRUE]
             ELSE [res |-> GetManyFrom(h, 0, num, <<>>), err |-> FALSE]
GetMany(h, k, num) ==
    IF num > Len(h) THEN [res |-> <<>>, err |-> TRUE]
    ELSE LET g == getIndex(h, k)
         IN  IF ~g.found /\ g.i = -1 THEN [res |-> <<>>, err |-> TRUE]
             ELSE [res |-> GetManyFrom(h, g.i, num + g.i, <<>>),
                   err |-> FALSE]

(***************************************************************************)
(* Stencil                                                                 *)
(***************************************************************************)
\* The order of sort.Strings on the names of the repository.
SortedNames ==
    <<"0", "1", "2", "any", "distributor", "dummy", "email", "gettor",
      "https", "moat", "none", "salmon", "settings", "stub", "telegram">>
NameIndex(name) == CHOOSE k \in 1..Len(SortedNames) : SortedNames[k] = name

\* sort.Strings(keys) by insertion.
RECURSIVE SortStrings(_)
SortStrings(keys) ==
    IF keys = {} THEN <<>>
    ELSE LET first == CHOOSE k \in keys :
                         \A m \in keys : NameIndex(k) <= NameIndex(m)
         IN  <<first>> \o SortStrings(keys \ {first})

\* A *Stencil is nil or a list of intervals.
NilStencil == [nil |-> TRUE]
IsNil(s) == s.nil
EmptyStencil == [nil |-> FALSE, intervals |-> <<>>]

Interval(b, e, name) == [Begin |-> b, End |-> e, Name |-> name]

\* Stencil.AddInterval
AddInterval(s, i) == [s EXCEPT !.intervals = Append(@, i)]

\* The loop of BuildStencil over the sorted keys from position k on, with
\* cursor i.
RECURSIVE BuildFrom(_, _, _, _, _)
BuildFrom(proportions, keys, k, i, s) ==
    IF k > Len(keys) THEN s
    ELSE BuildFrom(proportions, keys, k + 1, i + proportions[keys[k]],
                   AddInterval(s, Interval(i, i + proportions[keys[k]] - 1,
                                           keys[k])))

\* BuildStencil(proportions), proportions a function from names to weights.
BuildStencil_FromOne(proportions) ==
    BuildFrom(proportions, SortStrings(DOMAIN proportions), 1, 1, EmptyStencil)
BuildStencil(proportions) ==
    BuildFrom(proportions, SortStrings(DOMAIN proportions), 1, 0, EmptyStencil)

\* Interval.Contains
Contains(i, n) == i.Begin <= n /\ n <= i.End

\* Stencil.FindByValue: [found |-> err == nil, interval |-> the first match]
FindByValue(s, n) ==
    LET hits == {k \in 1..Len(s.intervals) : Contains(s.intervals[k], n)}
    IN  IF hits = {} THEN [found |-> FALSE]
        ELSE [found |-> TRUE,
              interval |-> s.intervals[CHOOSE k \in hits : \A m \in hits : k <= m]]

\* Stencil.GetUpperEnd: [ok |-> err == nil, max |-> the largest End, from 0]
RECURSIVE MaxEnd(_, _, _)
MaxEnd(intervals, k, max) ==
    IF k > Len(intervals) THEN max
    ELSE MaxEnd(intervals, k + 1,
                IF intervals[k].End > max THEN intervals[k].End ELSE max)

GetUpperEnd(s) ==
    IF Len(s.intervals) = 0 THEN [ok |-> FALSE, max |-> 0]
    ELSE [ok |-> TRUE, max |-> MaxEnd(s.intervals, 1, 0)]

\* The second half of the filter function of GetFilterFunc, from the bucket
\* n that rand.Intn returned.
OwnsBucket(s, distName, n) ==
    LET i == FindByValue(s, n)
    IN  IF ~i.found THEN FALSE ELSE i.interval.Name = distName

\* The first half of the filter function f that GetFilterFunc(distName)
\* returns, up to its rand.Seed: a pinned resource is decided by its pin
\* ([done |-> TRUE, b |-> the boolean]); any other resource seeds the
\* generator with its Uid ([done |-> FALSE, rng |-> the seeded generator]).
FilterEnter_AnyPin(distName, r) ==
    IF Distributor(r) # ""
    THEN [done |-> TRUE, b |-> TRUE]
    ELSE [done |-> FALSE, rng |-> Seed(Uid(r))]
FilterEnter(distName, r) ==
    IF Distributor(r) # ""
    THEN [done |-> TRUE, b |-> Distributor(r) = distName]
    ELSE [done |-> FALSE, rng |-> Seed(Uid(r))]

\* The second half of f, rand.Intn on the generator g and the interval
\* lookup: [b |-> the boolean, rng |-> generator state afterwards].
FilterDraw(s, distName, g) ==
    LET x == Intn(g, GetUpperEnd(s).max + 1)
    IN  [b |-> OwnsBucket(s, distName, x.n), rng |-> x.rng]

\* The filter function f applied to r when no other goroutine uses the
\* generator between its rand.Seed and its rand.Intn.
FilterFunc(s, distName, r, g) ==
    LET e == FilterEnter(distName, r)
    IN  IF e.done THEN [b |-> e.b, rng |-> g]
        ELSE FilterDraw(s, distName, e.rng)

\* Stencil.DoesDistOwnResource
DoesDistOwnResource(s, r, distName, g) ==
    IF IsNil(s) THEN [b |-> TRUE, rng |-> g]
    ELSE IF ~GetUpperEnd(s).ok THEN [b |-> FALSE, rng |-> g]
    ELSE FilterFunc(s, distName, r, g)

\* Hashring.Filter with the filter function of distName: the nodes of h from
\* position k on that pass go, through Add, into the new ring acc.
RECURSIVE FilterFrom(_, _, _, _, _, _, _)
FilterFrom(h, s, distName, k, acc, g, t) ==
    IF k > Len(h) THEN [h |-> acc, rng |-> g]
    ELSE LET f == FilterFunc(s, distName, h[k].elem, g)
         IN  FilterFrom(h, s, distName, k + 1,
                        IF f.b THEN Add(acc, h[k].elem, t).h ELSE acc,
                        f.rng, t)

\* SplitHashring.GetForDist: [h |-> ring returned, err |-> error returned,
\* rng |-> generator state afterwards]
GetForDist_NoError(h, s, distName, g, t) ==
    IF IsNil(s) \/ ~GetUpperEnd(s).ok
    THEN [h |-> h, err |-> FALSE, rng |-> g]
    ELSE LET x == FilterFrom(h, s, distName, 1, <<>>, g, t)
         IN  [h |-> x.h, err |-> FALSE, rng |-> x.rng]
GetForDist_FilterNil(h, s, distName, g, t) ==
    IF IsNil(s) \/ ~GetUpperEnd(s).ok THEN [h |-> <<>>, err |-> IsNil(s), rng |-> g]
    ELSE LET x == FilterFrom(h, s, distName, 1, <<>>, g, t)
         IN  [h |-> x.h, err |-> FALSE, rng |-> x.rng]
GetForDist(h, s, distName, g, t) ==
    IF IsNil(s) THEN [h |-> h, err |-> FALSE, rng |-> g]
    ELSE IF ~GetUpperEnd(s).ok THEN [h |-> <<>>, err |-> TRUE, rng |-> g]
    ELSE LET x == FilterFrom(h, s, distName, 1, <<>>, g, t)
         IN  [h |-> x.h, err |-> FALSE, rng |-> x.rng]

\* Collection.Get(distName, rType) on the ring h and stencil s of rType,
\* exists telling whether rType is a key of the Collection.
CollectionGet(exists, h, s, distName, g, t) ==
    IF ~exists THEN [res |-> <<>>, rng |-> g]
    ELSE LET x == GetForDist(h, s, distName, g, t)
         IN  IF x.err THEN [res |-> <<>>, rng |-> x.rng]
             ELSE [res |-> GetAll(x.h), rng |-> x.rng]

\* The loop of BackendResources.Get over the resources of the slice.
RECURSIVE Functional(_, _)
Functional_KeepAll(rs, only) == rs
Functional(rs, only) ==
    IF rs = <<>> THEN <<>>
    ELSE LET rest == Functional(SubSeq(rs, 1, Len(rs) - 1), only)
             r == rs[Len(rs)]
         IN  IF only /\ TestResult(r).State # "functional"
             THEN rest ELSE Append(rest, r)

\* BackendResources.Get(distName, rType)
BackendGet(exists, only, h, s, distName, g, t) ==
    IF ~exists THEN [res |-> <<>>, rng |-> g]
    ELSE LET x == GetForDist(h, s, distName, g, t)
         IN  IF x.err THEN [res |-> <<>>, rng |-> x.rng]
             ELSE [res |-> Functional(GetAll(x.h), only), rng |-> x.rng]

(***************************************************************************)
(* Specification of one Hashring under its operations.                     *)
(***************************************************************************)
RingType == "obfs4"
RingInputs ==
    {NewDummy(o, u, RingType, "", 1) : o \in Oids, u \in 1..MaxUid}
        \cup {NewDummy(1, 1, RingType, "", 2)}
NoRet == [op |-> "none"]

\* No distributor is part of the specification.
NoDist == [none |-> TRUE]

Procs == {"kraken", "other"}
Evaluators == {"propagate", "get"}
Idle == [pc |-> "idle"]

\* The ingestion loop before its first cycle; the gauge
\* IgnoringBridgeDescriptors is 0 and the shutdown channel has not fired.
KrakenStart ==
    [pc |-> "init", first |-> TRUE, adds |-> <<>>, rings |-> <<>>,
     pre |-> <<>>, before |-> <<>>, feed |-> <<>>, ignored |-> FALSE,
     IgnoringBridgeDescriptors |-> 0, shutdown |-> FALSE]
ChanIds == {1, 2, 3}

InitRing ==
    /\ hashnodes = [t \in Types |-> <<>>]
    /\ stencils = [t \in Types |-> NilStencil]
    /\ now = 0
    /\ rng = Seed(1)
    /\ EventRecipients = <<>>
    /\ chans = [c \in ChanIds |-> <<>>]
    /\ call = [p \in Procs |-> Idle]
    /\ OnlyFunctional = FALSE
    /\ eval = [e \in Evaluators |-> Idle]
    /\ kraken = KrakenStart
    /\ dist = NoDist
    /\ ret = NoRet

HAdd(r) ==
    LET x == Add(hashnodes[RingType], r, now)
    IN  /\ hashnodes' = [hashnodes EXCEPT ![RingType] = x.h]
        /\ ret' = [op |-> "Add", r |-> r, err |-> x.err]
        /\ UNCHANGED <<now, backendVars>>

HAddOrUpdate(r) ==
    LET x == AddOrUpdate(hashnodes[RingType], r, now)
    IN  /\ hashnodes' = [hashnodes EXCEPT ![RingType] = x.h]
        /\ ret' = [op |-> "AddOrUpdate", r |-> r, event |-> x.event]
        /\ UNCHANGED <<now, backendVars>>

HRemove(r) ==
    LET x == Remove(hashnodes[RingType], r)
    IN  /\ hashnodes' = [hashnodes EXCEPT ![RingType] = x.h]
        /\ ret' = [op |-> "Remove", r |-> r, err |-> x.err]
        /\ UNCHANGED <<now, backendVars>>

HPrune ==
    LET x == Prune(hashnodes[RingType], now)
    IN  /\ hashnodes' = [hashnodes EXCEPT ![RingType] = x.h]
        /\ ret' = [op |-> "Prune", pruned |-> x.pruned,
                   pre |-> hashnodes[RingType]]
        /\ UNCHANGED <<now, backendVars>>

\* Time passes between operations.
Tick ==
    /\ now < MaxTime
    /\ now' = now + 1
    /\ ret' = NoRet
    /\ UNCHANGED <<hashnodes, backendVars>>

NextRing ==
    \/ \E r \in RingInputs : HAdd(r)
    \/ \E r \in RingInputs : HAddOrUpdate(r)
    \/ \E r \in RingInputs : HRemove(r)
    \/ HPrune
    \/ Tick

Spec == InitRing /\ [][NextRing]_vars

(***************************************************************************)
(* BackendResources                                                        *)
(***************************************************************************)
ChanCap == 2

\* A type that is no key of the Collection map.
NoType == [nil |-> TRUE, absent |-> TRUE]
Exists(t) == stencils[t] # NoType

\* ResourceRequest.HasResourceType
HasResourceType(req, t) == t \in req.ResourceTypes

ResourceRequest(origin, types) ==
    [RequestOrigin |-> origin, ResourceTypes |-> types]

\* The ResourceDiff that propagateUpdate builds for the event.
NewDiff(r, event) ==
    [New |-> IF event = ResourceIsNew THEN <<r>> ELSE <<>>,
     Changed |-> IF event = ResourceChanged THEN <<r>> ELSE <<>>,
     Gone |-> IF event = ResourceIsGone THEN <<r>> ELSE <<>>]

\* The orders in which a range over a map with key set S can visit it.
Orders(S) ==
    {o \in [1..Cardinality(S) -> S] : \A i, j \in 1..Cardinality(S) :
                                          i # j => o[i] # o[j]}

\* The body of the loop of propagateUpdate for recipient distName, after
\* DoesDistOwnResource has returned own: the channels the diff is sent to.
SendsTo_FirstChan(distName, r, own) ==
    IF ~own THEN <<>>
    ELSE IF ~HasResourceType(EventRecipients[distName].Request, Type(r))
    THEN <<>>
    ELSE SubSeq(EventRecipients[distName].EventChans, 1, 1)
SendsTo_AnyType(distName, r, own) ==
    IF ~own THEN <<>>
    ELSE EventRecipients[distName].EventChans
SendsTo(distName, r, own) ==
    IF ~own THEN <<>>
    ELSE IF ~HasResourceType(EventRecipients[distName].Request, Type(r))
    THEN <<>>
    ELSE EventRecipients[distName].EventChans

\* The position of a caller inside BackendResources.Add or Prune: the
\* operation and its argument, the rings it has still to prune, the events
\* it has still to propagate, the event it is propagating (cur), the
\* recipients the loop of propagateUpdate has still to visit (the first is
\* the one it is at), the channels of that recipient it has still to send
\* to, those it has sent to for cur, and everything the call has sent so
\* far. pc: "run" between two calls, "seed" before the rand.Seed and "draw"
\* before the rand.Intn of an ownership test, "send" before a channel send.
NoCur == [none |-> TRUE]
Running(op, arg, pre, rings, todo, sent, cur, sends, posted) ==
    [pc |-> IF sends = <<>> THEN "run" ELSE "send", op |-> op, arg |-> arg,
     pre |-> pre, rings |-> rings, todo |-> todo, sent |-> sent, cur |-> cur,
     recips |-> <<>>, sends |-> sends, posted |-> posted]

\* The loop of propagateUpdate from the recipient Head(c.recips) on, up to
\* its next rand.Seed or channel send, or to its end, where propagateUpdate
\* returns. Decided is the rest of the loop body once DoesDistOwnResource
\* has returned own.
RECURSIVE Advance(_)
RECURSIVE Decided(_, _)
Decided(c, own) ==
    LET sends == SendsTo(Head(c.recips), c.cur.r, own)
    IN  IF sends = <<>> THEN Advance([c EXCEPT !.recips = Tail(@)])
        ELSE [c EXCEPT !.pc = "send", !.sends = sends]
Advance(c) ==
    IF c.recips = <<>> THEN [c EXCEPT !.pc = "run"]
    ELSE LET s == stencils[Type(c.cur.r)]
             e == FilterEnter(Head(c.recips), c.cur.r)
         IN  IF IsNil(s) THEN Decided(c, TRUE)
             ELSE IF ~GetUpperEnd(s).ok THEN Decided(c, FALSE)
             ELSE IF e.done THEN Decided(c, e.b)
             ELSE [c EXCEPT !.pc = "seed"]

\* The caller holds the read lock of the registry from the entry of
\* propagateUpdate to its return.
HoldsRLock(p) == call[p].pc \in {"seed", "draw", "send"}

\* BackendResources.Add(r1) up to the call of propagateUpdate.
AddCall(p, r1) ==
    /\ call[p].pc = "idle"
    /\ IF ~Exists(Type(r1))
       THEN /\ ret' = [op |-> "BAdd",
                       arg |-> [r |-> r1, event |-> ResourceUnchanged],
                       pre |-> <<>>, sent |-> <<>>]
            /\ UNCHANGED <<hashnodes, call>>
       ELSE LET x == AddOrUpdate(hashnodes[Type(r1)], r1, now)
            IN  /\ hashnodes' = [hashnodes EXCEPT ![Type(r1)] = x.h]
                /\ IF x.event # ResourceUnchanged
                   THEN /\ call' = [call EXCEPT ![p] =
                               Running("BAdd", [r |-> r1, event |-> x.event],
                                       <<>>, <<>>,
                                       <<[r |-> r1, event |-> x.event]>>,
                                       <<>>, NoCur, <<>>, <<>>)]
                        /\ ret' = NoRet
                   ELSE /\ ret' = [op |-> "BAdd",
                                   arg |-> [r |-> r1, event |-> x.event],
                                   pre |-> <<>>, sent |-> <<>>]
                        /\ UNCHANGED call

BAdd(p, r1) ==
    /\ AddCall(p, r1)
    /\ UNCHANGED <<cfgVars, now, rng, EventRecipients, chans>>

\* BackendResources.Prune(): the range over the Collection visits the rings
\* in some order.
BPrune(p) ==
    /\ call[p].pc = "idle"
    /\ \E rings \in Orders({t \in Types : Exists(t)}) :
           call' = [call EXCEPT ![p] =
                       Running("BPrune", NoCur, hashnodes, rings, <<>>, <<>>,
                               NoCur, <<>>, <<>>)]
    /\ ret' = NoRet
    /\ UNCHANGED <<hashnodes, cfgVars, now, rng, EventRecipients, chans>>

\* The caller goes on: inside propagateUpdate to the rand.Seed or the
\* rand.Intn of its ownership test; else into propagateUpdate for the next
\* resource it has to report (the range over EventRecipients visits them in
\* some order), else to Hashring.Prune of the next ring, else it returns.
Step(p) ==
    /\ call[p].pc \in {"run", "seed", "draw"}
    /\ LET c == call[p]
       IN  IF c.pc = "seed"
           THEN /\ rng' = FilterEnter(Head(c.recips), c.cur.r).rng
                /\ call' = [call EXCEPT ![p].pc = "draw"]
                /\ ret' = NoRet
                /\ UNCHANGED hashnodes
           ELSE IF c.pc = "draw"
           THEN LET x == FilterDraw(stencils[Type(c.cur.r)], Head(c.recips),
                                    rng)
                IN  /\ rng' = x.rng
                    /\ call' = [call EXCEPT ![p] = Decided(c, x.b)]
                    /\ ret' = NoRet
                    /\ UNCHANGED hashnodes
           ELSE IF c.todo # <<>>
           THEN LET entered == Running(c.op, c.arg, c.pre, c.rings,
                                       Tail(c.todo), c.sent, c.todo[1], <<>>,
                                       <<>>)
                IN  /\ IF \/ ~Exists(Type(c.todo[1].r))
                          \/ c.todo[1].event \notin
                                {ResourceIsNew, ResourceChanged, ResourceIsGone}
                       THEN call' = [call EXCEPT ![p] = entered]
                       ELSE \E order \in Orders(DOMAIN EventRecipients) :
                               call' = [call EXCEPT ![p] =
                                  Advance([entered EXCEPT !.recips = order])]
                    /\ ret' = NoRet
                    /\ UNCHANGED <<hashnodes, rng>>
           ELSE IF c.rings # <<>>
           THEN LET x == Prune(hashnodes[c.rings[1]], now)
                IN  /\ hashnodes' = [hashnodes EXCEPT ![c.rings[1]] = x.h]
                    /\ call' = [call EXCEPT ![p] =
                          Running(c.op, c.arg, c.pre, Tail(c.rings),
                                  [i \in 1..Len(x.pruned) |->
                                      [r |-> x.pruned[i],
                                       event |-> ResourceIsGone]],
                                  c.sent, NoCur, <<>>, <<>>)]
                    /\ ret' = NoRet
                    /\ UNCHANGED rng
           ELSE /\ call' = [call EXCEPT ![p] = Idle]
                /\ ret' = [op |-> c.op, arg |-> c.arg, pre |-> c.pre,
                           sent |-> c.sent]
                /\ UNCHANGED <<hashnodes, rng>>
    /\ UNCHANGED <<cfgVars, now, EventRecipients, chans>>

\* "c <- diff" inside propagateUpdate: the send proceeds when the channel
\* has room and blocks until then; after the last channel of a recipient
\* the loop goes on to the next recipient.
Send(p) ==
    /\ call[p].pc = "send"
    /\ LET c == call[p]
           ch == c.sends[1]
           diff == NewDiff(c.cur.r, c.cur.event)
           after == [c EXCEPT !.sent = Append(@, [c |-> ch, diff |-> diff]),
                              !.sends = Tail(@),
                              !.posted = Append(@, ch)]
       IN  /\ Len(chans[ch]) < ChanCap
           /\ chans' = [chans EXCEPT ![ch] = Append(@, diff)]
           /\ call' = [call EXCEPT ![p] =
                 IF after.sends # <<>> THEN after
                 ELSE Advance([after EXCEPT !.recips = Tail(@)])]
    /\ ret' = NoRet
    /\ UNCHANGED <<hashnodes, cfgVars, now, rng, EventRecipients>>

\* The subscriber that holds channel ch receives the next diff from it.
Recv(ch) ==
    /\ chans[ch] # <<>>
    /\ chans' = [chans EXCEPT ![ch] = Tail(@)]
    /\ ret' = NoRet
    /\ UNCHANGED <<hashnodes, cfgVars, now, rng, EventRecipients, call>>

(***************************************************************************)
(* Specification of the backend: the ingestion goroutine adds resources,   *)
(* subscribers registered beforehand receive.                              *)
(***************************************************************************)
Proportions == [n \in {"https", "moat"} |-> 1]

EventRecipient(req, cs) == [EventChans |-> cs, Request |-> req]

\* The registries that RegisterChan calls leave behind: "https" with
\* channels 1 and 2, "moat" with channel 3, each with its requested types.
Registries ==
    {[d \in {"https", "moat"} |->
         EventRecipient(ResourceRequest(d, IF d = "https" THEN t1 ELSE t2),
                        IF d = "https" THEN <<1, 2>> ELSE <<3>>)] :
       t1 \in {{"obfs4"}, {"tblink"}, {"obfs4", "tblink"}},
       t2 \in {{"obfs4"}, {"tblink"}}}

BackendInputs ==
    {NewDummy(1, 1, "obfs4", "", 1), NewDummy(2, 1, "obfs4", "", 1),
     NewDummy(2, 1, "obfs4", "moat", 1), NewDummy(1, 2, "obfs4", "https", 1),
     NewDummy(1, 1, "tblink", "", 1), NewDummy(1, 1, "vanilla", "", 1)}

InitBackend ==
    /\ hashnodes = [t \in Types |-> <<>>]
    /\ stencils = [t \in Types |->
                      IF t = "obfs4" THEN BuildStencil(Proportions)
                      ELSE IF t = "tblink" THEN NilStencil ELSE NoType]
    /\ now = 0
    /\ rng = Seed(1)
    /\ EventRecipients \in Registries
    /\ chans = [c \in ChanIds |-> <<>>]
    /\ call = [p \in Procs |-> Idle]
    /\ OnlyFunctional = FALSE
    /\ eval = [e \in Evaluators |-> Idle]
    /\ kraken = KrakenStart
    /\ dist = NoDist
    /\ ret = NoRet

NextBackend ==
    \/ \E r \in BackendInputs : BAdd("kraken", r)
    \/ Step("kraken")
    \/ Send("kraken")
    \/ \E ch \in ChanIds : Recv(ch)

SpecBackend == InitBackend /\ [][NextBackend]_vars

\* The scheduler runs the ingestion goroutine whenever it can take a step;
\* nothing makes a subscriber receive.
FairSpecBackend ==
    SpecBackend /\ WF_vars(Step("kraken")) /\ WF_vars(Send("kraken"))

(***************************************************************************)
(* Specification of pruning: the ingestion goroutine adds resources and    *)
(* prunes while time passes, two subscribers receive.                      *)
(***************************************************************************)
\* The resource with Uid 1 is left to the stencil, every other is pinned:
\* RngStream holds the stream of seed 1 only.
PinOf(u) == IF u = 1 THEN "" ELSE IF u % 2 = 0 THEN "https" ELSE "moat"

PruneInputs == {NewDummy(1, u, "obfs4", PinOf(u), 1) : u \in 1..MaxUid}

InitPrune ==
    /\ hashnodes = [t \in Types |-> <<>>]
    /\ stencils = [t \in Types |->
                      IF t = "obfs4" THEN BuildStencil(Proportions)
                      ELSE IF t = "tblink" THEN NilStencil ELSE NoType]
    /\ now = 0
    /\ rng = Seed(1)
    /\ EventRecipients =
          [d \in {"https", "moat"} |->
              EventRecipient(ResourceRequest(d, {"obfs4"}),
                             IF d = "https" THEN <<1, 2>> ELSE <<3>>)]
    /\ chans = [c \in ChanIds |-> <<>>]
    /\ call = [p \in Procs |-> Idle]
    /\ OnlyFunctional = FALSE
    /\ eval = [e \in Evaluators |-> Idle]
    /\ kraken = KrakenStart
    /\ dist = NoDist
    /\ ret = NoRet

NextPrune ==
    \/ \E r \in PruneInputs : BAdd("kraken", r)
    \/ BPrune("kraken")
    \/ Step("kraken")
    \/ Send("kraken")
    \/ \E ch \in ChanIds : Recv(ch)
    \/ Tick

SpecPrune == InitPrune /\ [][NextPrune]_vars

(***************************************************************************)
(* Specification of the registry of event recipients under RegisterChan    *)
(* and UnregisterChan.                                                     *)
(***************************************************************************)
MaxChans == 3

RegistryNames == {"https", "moat"}

\* RegisterChan(req, recipient) on the registry er.
RegisterChan(er, req, recipient) ==
    LET distName == req.RequestOrigin
    IN  IF distName \notin DOMAIN er
        THEN [d \in DOMAIN er \cup {distName} |->
                 IF d = distName THEN EventRecipient(req, <<recipient>>)
                 ELSE er[d]]
        ELSE [er EXCEPT ![distName].EventChans = Append(@, recipient)]

\* The loop of UnregisterChan over chanSlice from position i on: newSlice.
RECURSIVE Without(_, _, _)
Without(chanSlice, i, recipient) ==
    IF i > Len(chanSlice) THEN <<>>
    ELSE IF chanSlice[i] = recipient
    THEN SubSeq(chanSlice, 1, i - 1) \o SubSeq(chanSlice, i + 1, Len(chanSlice))
    ELSE Without(chanSlice, i + 1, recipient)

\* UnregisterChan(distName, recipient) on the registry er:
\* [er |-> the registry afterwards, panic |-> nil dereference].
UnregisterChan(er, distName, recipient) ==
    IF distName \notin DOMAIN er THEN [er |-> er, panic |-> TRUE]
    ELSE [er |-> [er EXCEPT ![distName].EventChans =
                     Without(er[distName].EventChans, 1, recipient)],
          panic |-> FALSE]

DoRegisterChan(req, recipient) ==
    /\ req.RequestOrigin \in DOMAIN EventRecipients =>
           Len(EventRecipients[req.RequestOrigin].EventChans) < MaxChans
    /\ EventRecipients' = RegisterChan(EventRecipients, req, recipient)
    /\ ret' = [op |-> "RegisterChan", dist |-> req.RequestOrigin,
               ch |-> recipient, pre |-> EventRecipients]
    /\ UNCHANGED <<hashnodes, cfgVars, now, rng, chans, call>>

DoUnregisterChan(distName, recipient) ==
    LET x == UnregisterChan(EventRecipients, distName, recipient)
    IN  /\ EventRecipients' = x.er
        /\ ret' = [op |-> "UnregisterChan", dist |-> distName,
                   ch |-> recipient, pre |-> EventRecipients,
                   panic |-> x.panic]
        /\ UNCHANGED <<hashnodes, cfgVars, now, rng, chans, call>>

NextRegistry ==
    \/ \E d \in RegistryNames, t \in {"obfs4", "tblink"}, ch \in ChanIds :
          DoRegisterChan(ResourceRequest(d, {t}), ch)
    \/ \E d \in RegistryNames, ch \in ChanIds : DoUnregisterChan(d, ch)

SpecRegistry == InitRing /\ [][NextRegistry]_vars

(***************************************************************************)
(* Specification of concurrent callers: two goroutines call                *)
(* BackendResources.Add for the same Uid; the subscribers' channels keep   *)
(* the diffs in the order in which they were sent.                         *)
(***************************************************************************)
ConcInputs == {NewDummy(o, 1, "obfs4", "", 1) : o \in Oids}

NextConc ==
    \/ \E p \in Procs : \E r \in ConcInputs : BAdd(p, r)
    \/ \E p \in Procs : Step(p)
    \/ \E p \in Procs : Send(p)

SpecConc == InitPrune /\ [][NextConc]_vars

(***************************************************************************)
(* Specification of the stencil under concurrent use: the ingestion        *)
(* goroutine runs the ownership tests of propagateUpdate while a request   *)
(* goroutine runs BackendResources.Get; both use the process-wide          *)
(* generator of math/rand, whose Seed and Intn are two separate calls.     *)
(***************************************************************************)
SliceType == "obfs4"

\* The loop of getBridgeDistributionRequest over distributorNames from
\* position k on, for one bridge: the Distribution it leaves in the bridge.
RECURSIVE MatchRequest(_, _, _)
MatchRequest(distributorNames, k, request) ==
    IF k > Len(distributorNames) THEN ""
    ELSE IF distributorNames[k] = request THEN distributorNames[k]
    ELSE MatchRequest(distributorNames, k + 1, request)

\* getBridgeDistributionRequest for one bridge.
getBridgeDistributionRequest(distributorNames, request) ==
    IF request # "any" THEN MatchRequest(distributorNames, 1, request)
    ELSE ""

\* distributorNames of reloadBridgeDescriptors: "none", then the keys of
\* the proportions table.
DistributorNames == <<"none", "https", "moat">>

\* The request of the bridge with Uid u.
RequestOf(u) ==
    IF u = 1 THEN "any" ELSE IF u = 2 THEN "moat"
    ELSE IF u = 3 THEN "none" ELSE "https"

\* The transport that reloadBridgeDescriptors adds for the bridge with Uid
\* u, with test result st.
Transport(u, st) ==
    SetTest(NewDummy(1, u, SliceType,
                     getBridgeDistributionRequest(DistributorNames,
                                                  RequestOf(u)), 1), st)

\* The ring after the transports of the bridges 1..n were added, bridge dys
\* having failed its test.
RECURSIVE Loaded(_, _)
Loaded(n, dys) ==
    IF n = 0 THEN <<>>
    ELSE Add(Loaded(n - 1, dys),
             Transport(n, IF n = dys THEN "dysfunctional" ELSE "functional"),
             0).h

\* The proportions tables of the configuration file.
Tables ==
    {[n \in {"https", "moat"} |-> 1], [n \in {"https", "moat"} |-> 0],
     [n \in {"https", "moat"} |-> IF n = "https" THEN 1 ELSE 2],
     [n \in {} |-> 0]}

\* Hashring.Filter's new ring: the resources that passed, added in order.
RECURSIVE AddAll(_, _, _)
AddAll(rs, acc, t) ==
    IF rs = <<>> THEN acc
    ELSE AddAll(Tail(rs), Add(acc, Head(rs), t).h, t)

stencil == stencils[SliceType]

InitStencil ==
    /\ \E dys \in 0..MaxUid :
          hashnodes = [t \in Types |->
                          IF t = SliceType THEN Loaded(MaxUid, dys) ELSE <<>>]
    /\ \E s \in {NilStencil} \cup {BuildStencil(p) : p \in Tables} :
          stencils = [t \in Types |-> IF t = SliceType THEN s ELSE NoType]
    /\ now = 0
    /\ rng = Seed(1)
    /\ EventRecipients =
          [d \in {"https", "moat"} |->
              EventRecipient(ResourceRequest(d, {SliceType}),
                             IF d = "https" THEN <<1, 2>> ELSE <<3>>)]
    /\ chans = [c \in ChanIds |-> <<>>]
    /\ call = [p \in Procs |-> Idle]
    /\ OnlyFunctional \in BOOLEAN
    /\ eval = [e \in Evaluators |-> Idle]
    /\ kraken = KrakenStart
    /\ dist = NoDist
    /\ ret = NoRet

Evaluating(op, arg, todo, passed) ==
    [pc |-> IF todo = <<>> THEN "return" ELSE "call",
     op |-> op, arg |-> arg, todo |-> todo, passed |-> passed]

\* propagateUpdate(r, event) enters its loop over EventRecipients, which it
\* visits in some order, testing DoesDistOwnResource(r, distName) for each.
StartPropagate(r) ==
    /\ eval["propagate"].pc = "idle"
    /\ \E order \in Orders(DOMAIN EventRecipients) :
          eval' = [eval EXCEPT !["propagate"] =
                      Evaluating("propagate", r,
                                 [i \in 1..Len(order) |-> <<r, order[i]>>],
                                 <<>>)]
    /\ ret' = NoRet
    /\ UNCHANGED <<hashnodes, stencils, OnlyFunctional, kraken, dist, now, rng,
                   EventRecipients, chans, call>>

\* BackendResources.Get(distName, SliceType) up to the first call of the
\* filter function in Hashring.Filter; with a nil stencil or without
\* intervals it returns at once.
StartGet(distName) ==
    /\ eval["get"].pc = "idle"
    /\ IF IsNil(stencil) \/ ~GetUpperEnd(stencil).ok
       THEN /\ ret' = [op |-> "Get", dist |-> distName,
                       slice |-> CollectionGet(TRUE, hashnodes[SliceType],
                                               stencil, distName, rng,
                                               now).res,
                       res |-> BackendGet(TRUE, OnlyFunctional,
                                          hashnodes[SliceType], stencil,
                                          distName, rng, now).res]
            /\ UNCHANGED eval
       ELSE /\ eval' = [eval EXCEPT !["get"] =
                          Evaluating("Get", distName,
                                     [i \in 1..Len(hashnodes[SliceType]) |->
                                         <<hashnodes[SliceType][i].elem,
                                           distName>>],
                                     <<>>)]
            /\ ret' = NoRet
    /\ UNCHANGED <<hashnodes, stencils, OnlyFunctional, kraken, dist, now, rng,
                   EventRecipients, chans, call>>

\* One ownership test is over with result b; n is the bucket that rand.Intn
\* returned, -1 when the test was decided without a draw.
Evaluated(e, b, n) ==
    LET c == eval[e]
        r == Head(c.todo)[1]
        d == Head(c.todo)[2]
    IN  /\ eval' = [eval EXCEPT ![e] =
                      Evaluating(c.op, c.arg, Tail(c.todo),
                                 IF b THEN Append(c.passed, Head(c.todo))
                                 ELSE c.passed)]
        /\ ret' = [op |-> "filter", r |-> r, d |-> d, b |-> b, bucket |-> n]

\* The next ownership test of goroutine e, up to its rand.Seed.
EvalCall(e) ==
    /\ eval[e].pc = "call"
    /\ LET r == Head(eval[e].todo)[1]
           d == Head(eval[e].todo)[2]
           f == FilterEnter(d, r)
       IN  IF IsNil(stencil) THEN Evaluated(e, TRUE, -1) /\ UNCHANGED rng
           ELSE IF ~GetUpperEnd(stencil).ok
           THEN Evaluated(e, FALSE, -1) /\ UNCHANGED rng
           ELSE IF f.done THEN Evaluated(e, f.b, -1) /\ UNCHANGED rng
           ELSE /\ rng' = f.rng
                /\ eval' = [eval EXCEPT ![e].pc = "seeded"]
                /\ ret' = NoRet
    /\ UNCHANGED <<hashnodes, stencils, OnlyFunctional, kraken, dist, now,
                   EventRecipients, chans, call>>

\* The rand.Intn of goroutine e and the interval lookup after it.
EvalDraw(e) ==
    /\ eval[e].pc = "seeded"
    /\ LET x == FilterDraw(stencil, Head(eval[e].todo)[2], rng)
           n == Intn(rng, GetUpperEnd(stencil).max + 1).n
       IN  /\ rng' = x.rng
           /\ Evaluated(e, x.b, n)
    /\ UNCHANGED <<hashnodes, stencils, OnlyFunctional, kraken, dist, now,
                   EventRecipients, chans, call>>

\* Goroutine e leaves its loop: Get returns the functional resources of the
\* filtered ring, the ingestion goroutine has its set of owners.
EvalReturn(e) ==
    /\ eval[e].pc = "return"
    /\ eval' = [eval EXCEPT ![e] = Idle]
    /\ ret' = IF eval[e].op = "Get"
              THEN LET sub == AddAll([i \in 1..Len(eval[e].passed) |->
                                         eval[e].passed[i][1]], <<>>, now)
                   IN  [op |-> "Get", dist |-> eval[e].arg,
                        slice |-> GetAll(sub),
                        res |-> Functional(GetAll(sub), OnlyFunctional)]
              ELSE [op |-> "propagate", r |-> eval[e].arg,
                    owners |-> {eval[e].passed[i][2] :
                                   i \in 1..Len(eval[e].passed)}]
    /\ UNCHANGED <<hashnodes, stencils, OnlyFunctional, kraken, dist, now, rng,
                   EventRecipients, chans, call>>

\* The resources that propagateUpdate is called with: unpinned with Uid 1,
\* the seed of RngStream, or pinned.
StencilInputs ==
    {NewDummy(1, 1, SliceType, "", 1)}
       \cup {NewDummy(1, u, SliceType, d, 1) :
                u \in 1..MaxUid, d \in {"moat", "none"}}

NextStencil ==
    \/ \E r \in StencilInputs : StartPropagate(r)
    \/ \E d \in {"https", "moat"} : StartGet(d)
    \/ \E e \in Evaluators : EvalCall(e)
    \/ \E e \in Evaluators : EvalDraw(e)
    \/ \E e \in Evaluators : EvalReturn(e)

SpecStencil == InitStencil /\ [][NextStencil]_vars

(***************************************************************************)
(* Specification of the per-IP sub-selection: concurrent requests of one   *)
(* client prefix on a ring partitioned into rotating period slices.        *)
(***************************************************************************)
NumPeriods == 3
RotationPeriodHours == 1
NumBridgesPerRequest == 1

\* The string forms of the period numbers.
PeriodNames == <<"0", "1", "2">>

\* The proportions {"0": 1, ..., "<numPeriods-1>": 1}.
PeriodProportions == [n \in {PeriodNames[i] : i \in 1..NumPeriods} |-> 1]

\* periodSlice at the hour t.
PeriodSlice(t) == PeriodNames[((t \div RotationPeriodHours) % NumPeriods) + 1]

\* The ring of the distributor holds one resource that is left to the
\* stencil, the one with Uid 1, the seed of RngStream; the others carry the
\* pin of the distributor.
\* The hash key of the client prefix.
PrefixKey == 2

InitRotation ==
    /\ hashnodes = [t \in Types |->
                       IF t = SliceType
                       THEN AddAll([u \in 1..MaxUid |->
                                       NewDummy(1, u, SliceType,
                                                IF u = 1 THEN "" ELSE "moat",
                                                1)],
                                   <<>>, 0)
                       ELSE <<>>]
    /\ stencils = [t \in Types |->
                      IF t = SliceType THEN BuildStencil(PeriodProportions)
                      ELSE NoType]
    /\ now = 0
    /\ rng = Seed(1)
    /\ EventRecipients = <<>>
    /\ chans = [c \in ChanIds |-> <<>>]
    /\ call = [p \in Procs |-> Idle]
    /\ OnlyFunctional = FALSE
    /\ eval = [e \in Evaluators |-> Idle]
    /\ kraken = KrakenStart
    /\ dist = NoDist
    /\ ret = NoRet

\* A request of the prefix arrives at goroutine e: GetForDist(periodSlice)
\* up to the first call of the filter function in Hashring.Filter.
StartRequest(e) ==
    /\ eval[e].pc = "idle"
    /\ eval' = [eval EXCEPT ![e] =
                   Evaluating("Request", [hour |-> now],
                              [i \in 1..Len(hashnodes[SliceType]) |->
                                  <<hashnodes[SliceType][i].elem,
                                    PeriodSlice(now)>>],
                              <<>>)]
    /\ ret' = NoRet
    /\ UNCHANGED <<hashnodes, stencils, OnlyFunctional, kraken, dist, now, rng,
                   EventRecipients, chans, call>>

\* The filtered ring is complete: GetMany(hashKey, desiredCount) on it; the
\* goroutine keeps the answer it gave.
RequestReturn(e) ==
    /\ eval[e].pc = "return"
    /\ LET sub == AddAll([i \in 1..Len(eval[e].passed) |->
                             eval[e].passed[i][1]], <<>>, now)
           x == GetMany(sub, PrefixKey, NumBridgesPerRequest)
       IN  /\ eval' = [eval EXCEPT ![e] =
                          [pc |-> "idle", hour |-> eval[e].arg.hour,
                           res |-> {x.res[i] : i \in 1..Len(x.res)}]]
           /\ ret' = [op |-> "Request", hour |-> eval[e].arg.hour,
                      res |-> {x.res[i] : i \in 1..Len(x.res)}]
    /\ UNCHANGED <<hashnodes, stencils, OnlyFunctional, kraken, dist, now, rng,
                   EventRecipients, chans, call>>

NextRotation ==
    \/ \E e \in Evaluators : StartRequest(e)
    \/ \E e \in Evaluators : EvalCall(e)
    \/ \E e \in Evaluators : EvalDraw(e)
    \/ \E e \in Evaluators : RequestReturn(e)
    \/ Tick

SpecRotation == InitRotation /\ [][NextRotation]_vars

(***************************************************************************)
(* Specification of the ingestion loop (InitKraken): each cycle reloads    *)
(* the network status, adds the bridges it found, and, after the first     *)
(* cycle, prunes the rings; subscribers receive meanwhile.                 *)
(***************************************************************************)
\* A network-status file: the bridges it lists, each with its Running flag.
Feeds == UNION {[D -> BOOLEAN] : D \in SUBSET (1..MaxUid)}

\* loadBridgesFromNetworkstatus: [err |-> NotEnoughRunningError returned,
\* bridges |-> the Uids of the map returned]. With no bridge listed the
\* fraction is 0/0, which is not below the threshold.
loadBridgesFromNetworkstatus(feed) ==
    LET numBridges == Cardinality(DOMAIN feed)
        running == {u \in DOMAIN feed : feed[u]}
        runningBridges == Cardinality(running)
    IN  IF numBridges # 0 /\ 2 * runningBridges < numBridges
        THEN [err |-> TRUE, bridges |-> {}]
        ELSE [err |-> FALSE, bridges |-> running]

\* The Collection of the backend and its subscribers.
InitKraken ==
    /\ hashnodes = [t \in Types |-> <<>>]
    /\ stencils = [t \in Types |->
                      IF t = SliceType THEN BuildStencil(Proportions)
                      ELSE NoType]
    /\ now = 0
    /\ rng = Seed(1)
    /\ EventRecipients =
          [d \in {"https", "moat"} |->
              EventRecipient(ResourceRequest(d, {SliceType}),
                             IF d = "https" THEN <<1>> ELSE <<2>>)]
    /\ chans = [c \in ChanIds |-> <<>>]
    /\ call = [p \in Procs |-> Idle]
    /\ OnlyFunctional = FALSE
    /\ eval = [e \in Evaluators |-> Idle]
    /\ kraken = KrakenStart
    /\ dist = NoDist
    /\ ret = NoRet

\* The start of a cycle, at initialisation or when the ticker fires:
\* reloadBridgeDescriptors up to its loop over the bridges, which it visits
\* in some order.
KReload(feed) ==
    /\ kraken.pc \in {"init", "wait"}
    /\ LET x == loadBridgesFromNetworkstatus(feed)
       IN  \E order \in Orders(x.bridges) :
              kraken' = [kraken EXCEPT
                            !.pc = "add", !.adds = order,
                            !.pre = hashnodes, !.feed = feed,
                            !.ignored = x.err,
                            !.IgnoringBridgeDescriptors =
                                IF x.err THEN 1 ELSE 0]
    /\ ret' = NoRet
    /\ UNCHANGED <<hashnodes, stencils, OnlyFunctional, eval, dist, now, rng,
                   EventRecipients, chans, call>>

\* rcol.Add(t) for the next bridge of the loop.
KAdd ==
    /\ kraken.pc = "add"
    /\ kraken.adds # <<>>
    /\ AddCall("kraken", Transport(Head(kraken.adds), "untested"))
    /\ kraken' = [kraken EXCEPT !.adds = Tail(@)]
    /\ UNCHANGED <<stencils, OnlyFunctional, eval, dist, now, rng,
                   EventRecipients, chans>>

\* float64 values between 2^-5 and 4, and 0, as multiples of 2^-58 in two
\* limbs of 29 bits; NaN apart.
Limb == 2^29
NaN == [nan |-> TRUE]
Float(hi, lo) == [hi |-> hi, lo |-> lo]

\* The first n bits of r/m after the binary point (r < m), and the
\* remainder.
RECURSIVE DivBits(_, _, _, _)
DivBits(r, m, n, q) ==
    IF n = 0 THEN [q |-> q, r |-> r]
    ELSE LET bit == IF 2 * r >= m THEN 1 ELSE 0
         IN  DivBits(2 * r - m * bit, m, n - 1, 2 * q + bit)

\* The position of the highest bit of h that is set, from e on.
RECURSIVE Msb(_, _)
Msb(h, e) == IF e = 30 \/ h < 2^(e + 1) THEN e ELSE Msb(h, e + 1)

\* Rounding to the 53 significant bits of a float64, to nearest and ties to
\* even; sticky tells that the exact value is above hi, lo.
RoundFloat(hi, lo, sticky) ==
    IF hi < 2^24 THEN Float(0, 0)
    ELSE LET d == Msb(hi, 0) - 23
             low == lo % 2^d
             half == 2^(d - 1)
             up == \/ low > half
                   \/ low = half /\ sticky
                   \/ low = half /\ (lo \div 2^d) % 2 = 1
             l == lo - low + (IF up THEN 2^d ELSE 0)
         IN  Float(hi + l \div Limb, l % Limb)

\* float64(k) / float64(m) for 0 <= k <= m.
FloatDiv(k, m) ==
    IF m = 0 THEN NaN
    ELSE LET h == DivBits(k % m, m, 29, 0)
             l == DivBits(h.r, m, 29, 0)
         IN  RoundFloat((k \div m) * Limb + h.q, l.q, l.r # 0)

\* a + b in float64.
FloatAdd(a, b) ==
    IF a = NaN \/ b = NaN THEN NaN
    ELSE LET l == a.lo + b.lo
         IN  RoundFloat(a.hi + b.hi + l \div Limb, l % Limb, FALSE)

\* a / float64(n) >= 0.5 in float64: the quotient rounds to 0.5 or more
\* when a/n >= 0.5 - 2^-55. 0/0 is NaN, which compares false.
AtLeastHalf(a, n) ==
    IF a = NaN \/ n = 0 THEN FALSE
    ELSE \/ a.hi > n * 2^28 - 1
         \/ a.hi = n * 2^28 - 1 /\ a.lo >= Limb - 8 * n

\* functionalFractionAcc after the loop over the Collection has visited the
\* types ts in this order, from acc.
RECURSIVE FractionAcc(_, _, _)
FractionAcc(rings, ts, acc) ==
    IF ts = <<>> THEN acc
    ELSE LET h == rings[Head(ts)]
             f == Cardinality({i \in 1..Len(h) :
                                  TestResult(h[i].elem).State = "functional"})
         IN  FractionAcc(rings, Tail(ts), FloatAdd(acc, FloatDiv(f, Len(h))))

\* calcTestedResources: the value it gives OnlyFunctional when the range
\* over the Collection visits the types in the order ts.
calcTestedResources(rings, ts) ==
    AtLeastHalf(FractionAcc(rings, ts, Float(0, 0)), Len(ts))

\* The loop of Metrics.updateDistributors: BackendResources.Get for the
\* pairs of a distributor and a resource type in the order the two ranges
\* visit them; the generator state it leaves.
RECURSIVE updateDistributors(_, _, _, _, _)
updateDistributors(rings, only, pairs, g, t) ==
    IF pairs = <<>> THEN g
    ELSE updateDistributors(rings, only, Tail(pairs),
                            BackendGet(Exists(Head(pairs)[2]), only,
                                       rings[Head(pairs)[2]],
                                       stencils[Head(pairs)[2]],
                                       Head(pairs)[1], g, t).rng, t)

\* The pairs in the orders of the two ranges: the distributors of the
\* table in the order ds, for each of them the types in the order ts[d].
RECURSIVE PairsOf(_, _)
PairsOf(ds, ts) ==
    IF ds = <<>> THEN <<>>
    ELSE [i \in 1..Len(ts[Head(ds)]) |-> <<Head(ds), ts[Head(ds)][i]>>]
            \o PairsOf(Tail(ds), ts)

\* The loop over the bridges is over and the last Add has returned.
AddsDone ==
    /\ kraken.pc = "add"
    /\ kraken.adds = <<>>
    /\ call["kraken"].pc = "idle"

\* pruneExpiredResources (not in the cycle at initialisation): Hashring.Prune
\* on the next ring of its range over the Collection, nothing else.
KPrune ==
    /\ \/ AddsDone /\ ~kraken.first
       \/ kraken.pc = "prune"
    /\ \E order \in IF kraken.pc = "prune" THEN {kraken.rings}
                    ELSE Orders({t \in Types : Exists(t)}) :
          /\ order # <<>>
          /\ hashnodes' = [hashnodes EXCEPT ![Head(order)] = Prune(@, now).h]
          /\ kraken' = [kraken EXCEPT
                           !.pc = IF Tail(order) = <<>> THEN "calc"
                                  ELSE "prune",
                           !.rings = Tail(order),
                           !.before = IF kraken.pc = "prune" THEN @
                                      ELSE hashnodes]
    /\ ret' = NoRet
    /\ UNCHANGED <<stencils, OnlyFunctional, eval, dist, now, rng,
                   EventRecipients, chans, call>>

\* calcTestedResources; in the cycle at initialisation it follows the
\* loop over the bridges.
KCalc ==
    /\ \/ AddsDone /\ (kraken.first \/ {t \in Types : Exists(t)} = {})
       \/ kraken.pc = "calc"
    /\ \E ts \in Orders({t \in Types : Exists(t)}) :
          OnlyFunctional' = calcTestedResources(hashnodes, ts)
    /\ kraken' = [kraken EXCEPT
                     !.pc = IF kraken.first THEN "ready" ELSE "update",
                     !.before = IF kraken.pc = "calc" THEN @ ELSE hashnodes]
    /\ ret' = NoRet
    /\ UNCHANGED <<hashnodes, stencils, eval, dist, now, rng, EventRecipients,
                   chans, call>>

\* "ready <- true" of the cycle at initialisation: the send returns when
\* the caller of InitKraken receives.
KReady ==
    /\ kraken.pc = "ready"
    /\ kraken' = [kraken EXCEPT !.pc = "update"]
    /\ ret' = NoRet
    /\ UNCHANGED <<hashnodes, stencils, OnlyFunctional, eval, dist, now, rng,
                   EventRecipients, chans, call>>

\* Metrics.updateDistributors, which returns at once when the assignments
\* file does not open; the cycle is over.
KUpdate(opens) ==
    /\ kraken.pc = "update"
    /\ IF opens
       THEN \E ds \in Orders(DOMAIN Proportions),
               ts \in [DOMAIN Proportions ->
                          Orders({t \in Types : Exists(t)})] :
               rng' = updateDistributors(hashnodes, OnlyFunctional,
                                         PairsOf(ds, ts), rng, now)
       ELSE UNCHANGED rng
    /\ ret' = [op |-> "cycle", first |-> kraken.first,
               feed |-> kraken.feed, ignored |-> kraken.ignored,
               pre |-> kraken.pre, before |-> kraken.before,
               sent |-> <<>>]
    /\ kraken' = [kraken EXCEPT !.pc = "wait", !.first = FALSE]
    /\ UNCHANGED <<hashnodes, stencils, OnlyFunctional, eval, dist, now,
                   EventRecipients, chans, call>>

NextKraken ==
    \/ \E feed \in Feeds : KReload(feed)
    \/ KAdd
    \/ KPrune
    \/ KCalc
    \/ KReady
    \/ \E opens \in BOOLEAN : KUpdate(opens)
    \/ Step("kraken")
    \/ Send("kraken")
    \/ \E ch \in ChanIds : Recv(ch)
    \/ Tick

SpecKraken == InitKraken /\ [][NextKraken]_vars

(***************************************************************************)
(* Specification of the ingestion loop with its shutdown channel.          *)
(***************************************************************************)
\* The owner of the shutdown channel fires it.
Shutdown ==
    /\ ~kraken.shutdown
    /\ kraken' = [kraken EXCEPT !.shutdown = TRUE]
    /\ ret' = NoRet
    /\ UNCHANGED <<hashnodes, stencils, OnlyFunctional, eval, dist, now, rng,
                   EventRecipients, chans, call>>

\* The select of InitKraken takes its shutdown case: InitKraken returns.
\* The ticker case (KReload) stays selectable while the ticker has a tick
\* pending.
KReturn ==
    /\ kraken.pc = "wait"
    /\ kraken.shutdown
    /\ kraken' = [kraken EXCEPT !.pc = "returned"]
    /\ ret' = NoRet
    /\ UNCHANGED <<hashnodes, stencils, OnlyFunctional, eval, dist, now, rng,
                   EventRecipients, chans, call>>

\* The network-status files of the shutdown runs list the bridges 1 and 2.
ShutdownFeeds == {feed \in Feeds : DOMAIN feed \subseteq {1, 2}}

NextShutdown ==
    \/ \E feed \in ShutdownFeeds : KReload(feed)
    \/ KAdd
    \/ KPrune
    \/ KCalc
    \/ KReady
    \/ \E opens \in BOOLEAN : KUpdate(opens)
    \/ Step("kraken")
    \/ Send("kraken")
    \/ \E ch \in ChanIds : Recv(ch)
    \/ Tick
    \/ Shutdown
    \/ KReturn

SpecShutdown == InitKraken /\ [][NextShutdown]_vars

\* The ingestion goroutine is between the loop over the bridges and the
\* end of its cycle.
FinishEnabled ==
    AddsDone \/ kraken.pc \in {"prune", "calc", "ready", "update"}

\* The scheduler runs the ingestion goroutine whenever it can take a step
\* and the caller of InitKraken receives from ready, so the rest of a cycle,
\* which has finitely many steps, comes to its end; nothing makes a
\* subscriber receive.
FairSpecShutdown ==
    /\ SpecShutdown
    /\ WF_vars(KAdd)
    /\ WF_vars(Step("kraken")) /\ WF_vars(Send("kraken"))
    /\ []<>~FinishEnabled

(***************************************************************************)
(* Specification of calcTestedResources on a Collection of three types.    *)
(***************************************************************************)
\* The ring of type t with the resources 1..n, of which 1..k are functional
\* and the others untested.
RECURSIVE TestedRing(_, _, _)
TestedRing(t, n, k) ==
    IF n = 0 THEN <<>>
    ELSE Add(TestedRing(t, n - 1, k),
             SetTest(NewDummy(1, n, t, "", 1),
                     IF n <= k THEN "functional" ELSE "untested"), 0).h

InitTested ==
    /\ \E n \in [Types -> 0..MaxUid] :
          \E k \in [Types -> 0..MaxUid] :
             /\ \A t \in Types : k[t] <= n[t]
             /\ hashnodes = [t \in Types |-> TestedRing(t, n[t], k[t])]
    /\ \E registered \in {Types, Types \ {"vanilla"}} :
          stencils = [t \in Types |->
                         IF t \in registered THEN NilStencil ELSE NoType]
    /\ now = 0
    /\ rng = Seed(1)
    /\ EventRecipients = <<>>
    /\ chans = [c \in ChanIds |-> <<>>]
    /\ call = [p \in Procs |-> Idle]
    /\ OnlyFunctional = FALSE
    /\ eval = [e \in Evaluators |-> Idle]
    /\ kraken = KrakenStart
    /\ dist = NoDist
    /\ ret = NoRet

\* calcTestedResources(metrics, rcol); its range over the Collection visits
\* the types in some order.
DoCalcTestedResources ==
    \E ts \in Orders({t \in Types : Exists(t)}) :
        /\ OnlyFunctional' = calcTestedResources(hashnodes, ts)
        /\ ret' = [op |-> "calcTestedResources", order |-> ts]
        /\ UNCHANGED <<hashnodes, stencils, eval, kraken, dist, now, rng,
                       EventRecipients, chans, call>>

NextTested == DoCalcTestedResources

SpecTested == InitTested /\ [][NextTested]_vars

(***************************************************************************)
(* Specification of the Salmon distributor's invitations: users create     *)
(* and redeem invite tokens while time passes and the cache is pruned.     *)
(***************************************************************************)
InvitationTokenExpiry == 1
MaxTrustLevel == 6

Tokens == {"t1", "t2"}
UserIds == {"foo", "bar", "u1"}
NoUser == ""

\* m with key k set to v, and m without key k, for a Go map m.
MapSet(m, k, v) == [x \in DOMAIN m \cup {k} |-> IF x = k THEN v ELSE m[x]]
MapDelete(m, k) == [x \in DOMAIN m \ {k} |-> m[x]]

TokenMetaInfo(secretId, t) == [SecretInviterId |-> secretId, IssueTime |-> t]

\* SalmonDistributor.addUser with the SecretId that NewUser drew; NewUser
\* may fail (id = NoUser).
addUser(s, trust, inviter, id) ==
    IF id = NoUser THEN [s |-> s, err |-> TRUE]
    ELSE [s |-> [s EXCEPT !.Users =
                    MapSet(@, id, [Trust |-> trust, Banned |-> FALSE,
                                   InvitedBy |-> inviter])],
          err |-> FALSE]

\* time.Since(metaInfo.IssueTime) > InvitationTokenExpiry at time t.
TokenExpired(metaInfo, t) == t - metaInfo.IssueTime > InvitationTokenExpiry

\* SalmonDistributor.pruneTokenCache at time t.
pruneTokenCache(s, t) ==
    [s EXCEPT !.TokenCache =
        [x \in {y \in DOMAIN @ : ~TokenExpired(@[y], t)} |-> @[x]]]

\* The token generator has returned an error.
NoToken == ""

\* The tests of CreateInvite on the user, made before it takes
\* tokenCacheMutex: TRUE when it goes on.
MayInvite(s, secretId) ==
    IF secretId \notin DOMAIN s.Users THEN FALSE
    ELSE IF s.Users[secretId].Banned THEN FALSE
    ELSE s.Users[secretId].Trust >= MaxTrustLevel

\* The rest of CreateInvite, under tokenCacheMutex, at time t; token is the
\* first random token that is not in the cache, NoToken when the generator
\* fails before it draws one.
IssueToken(s, secretId, token, t) ==
    IF token = NoToken THEN [s |-> s, err |-> TRUE]
    ELSE [s |-> [s EXCEPT !.TokenCache =
                    MapSet(@, token, TokenMetaInfo(secretId, t))],
          err |-> FALSE]

\* SalmonDistributor.CreateInvite(secretId) at time t when nothing runs
\* between its tests and its insertion.
CreateInvite(s, secretId, token, t) ==
    IF ~MayInvite(s, secretId) THEN [s |-> s, err |-> TRUE]
    ELSE IssueToken(s, secretId, token, t)

\* SalmonDistributor.RedeemInvite(token) at time t, id being the SecretId
\* that NewUser draws.
RedeemInvite_NoDelete(s, token, id, t) ==
    IF token \notin DOMAIN s.TokenCache THEN [s |-> s, err |-> TRUE]
    ELSE LET metaInfo == s.TokenCache[token]
         IN  IF TokenExpired(metaInfo, t) THEN [s |-> s, err |-> TRUE]
             ELSE IF metaInfo.SecretInviterId \notin DOMAIN s.Users
             THEN [s |-> s, err |-> TRUE]
             ELSE addUser(s, s.Users[metaInfo.SecretInviterId].Trust - 1,
                          metaInfo.SecretInviterId, id)
RedeemInvite(s, token, id, t) ==
    IF token \notin DOMAIN s.TokenCache THEN [s |-> s, err |-> TRUE]
    ELSE LET metaInfo == s.TokenCache[token]
             s1 == [s EXCEPT !.TokenCache = MapDelete(@, token)]
         IN  IF TokenExpired(metaInfo, t) THEN [s |-> s1, err |-> TRUE]
             ELSE IF metaInfo.SecretInviterId \notin DOMAIN s1.Users
             THEN [s |-> s1, err |-> TRUE]
             ELSE addUser(s1, s1.Users[metaInfo.SecretInviterId].Trust - 1,
                          metaInfo.SecretInviterId, id)

\* NewSalmonDistributor with the users of TestTokenCache: "foo" may invite,
\* "bar" is banned. redeemed is the history of the tokens: how often each
\* was redeemed successfully since CreateInvite last issued it.
InitSalmon ==
    /\ hashnodes = [t \in Types |-> <<>>]
    /\ stencils = [t \in Types |-> NilStencil]
    /\ now = 0
    /\ rng = Seed(1)
    /\ EventRecipients = <<>>
    /\ chans = [c \in ChanIds |-> <<>>]
    /\ call = [p \in Procs |-> Idle]
    /\ OnlyFunctional = FALSE
    /\ eval = [e \in Evaluators |-> Idle]
    /\ kraken = KrakenStart
    /\ dist = [TokenCache |-> <<>>,
               Users |-> [u \in {"foo", "bar"} |->
                             [Trust |-> MaxTrustLevel, Banned |-> u = "bar",
                              InvitedBy |-> NoUser]],
               redeemed |-> [k \in Tokens |-> 0],
               inviting |-> NoUser, crashed |-> FALSE]
    /\ ret = NoRet

\* CreateInvite(secretId) up to tokenCacheMutex.Lock(): it returns an error
\* or waits for the mutex (dist.inviting). It reads s.Users without the
\* mutex.
DoCreateInvite(secretId) ==
    /\ ~dist.crashed
    /\ dist.inviting = NoUser
    /\ IF MayInvite(dist, secretId)
       THEN /\ dist' = [dist EXCEPT !.inviting = secretId]
            /\ ret' = NoRet
       ELSE /\ ret' = [op |-> "CreateInvite", secretId |-> secretId,
                       token |-> NoToken, err |-> TRUE, pre |-> dist]
            /\ UNCHANGED dist
    /\ UNCHANGED <<hashnodes, stencils, OnlyFunctional, eval, kraken, now,
                   rng, EventRecipients, chans, call>>

\* The waiting CreateInvite has the mutex and goes on to its return.
DoIssueToken(token) ==
    /\ ~dist.crashed
    /\ dist.inviting # NoUser
    /\ token \notin DOMAIN dist.TokenCache
    /\ LET x == IssueToken(dist, dist.inviting, token, now)
           s1 == [x.s EXCEPT !.inviting = NoUser]
       IN  /\ dist' = IF x.err THEN s1
                      ELSE [s1 EXCEPT !.redeemed[token] = 0]
           /\ ret' = [op |-> "CreateInvite", secretId |-> dist.inviting,
                      token |-> token, err |-> x.err, pre |-> dist]
    /\ UNCHANGED <<hashnodes, stencils, OnlyFunctional, eval, kraken, now,
                   rng, EventRecipients, chans, call>>

DoRedeemInvite(token, id) ==
    /\ ~dist.crashed
    /\ LET x == RedeemInvite(dist, token, id, now)
       IN  /\ dist' = IF x.err THEN x.s
                      ELSE [x.s EXCEPT !.redeemed[token] = @ + 1]
           /\ ret' = [op |-> "RedeemInvite", token |-> token, err |-> x.err,
                      pre |-> dist]
    /\ UNCHANGED <<hashnodes, stencils, OnlyFunctional, eval, kraken, now,
                   rng, EventRecipients, chans, call>>

\* RedeemInvite writes s.Users in addUser while a CreateInvite reads it
\* without the mutex: the runtime may stop the process on the concurrent
\* map access. The other outcomes are the read before and after the write.
MapRace(token, id) ==
    /\ ~dist.crashed
    /\ dist.inviting = NoUser
    /\ ~RedeemInvite(dist, token, id, now).err
    /\ dist' = [dist EXCEPT !.crashed = TRUE]
    /\ ret' = [op |-> "abort"]
    /\ UNCHANGED <<hashnodes, stencils, OnlyFunctional, eval, kraken, now,
                   rng, EventRecipients, chans, call>>

DoPruneTokenCache ==
    /\ ~dist.crashed
    /\ dist' = pruneTokenCache(dist, now)
    /\ ret' = [op |-> "pruneTokenCache", pre |-> dist]
    /\ UNCHANGED <<hashnodes, stencils, OnlyFunctional, eval, kraken, now,
                   rng, EventRecipients, chans, call>>

NextSalmon ==
    \/ \E secretId \in UserIds : DoCreateInvite(secretId)
    \/ \E token \in Tokens \cup {NoToken} : DoIssueToken(token)
    \/ \E token \in Tokens, id \in UserIds : MapRace(token, id)
    \/ \E token \in Tokens \cup {"ThisTokenDoesNotExist"},
          id \in UserIds \cup {NoUser} : DoRedeemInvite(token, id)
    \/ DoPruneTokenCache
    \/ Tick

SpecSalmon == InitSalmon /\ [][NextSalmon]_vars

(***************************************************************************)
(* Specification of the Gettor distributor: applyDiff on the diffs of      *)
(* Tor Browser links that the backend sends.                               *)
(***************************************************************************)
MaxLinks == 2

\* Version{Mayor, Minor, Patch}
Version(mayor, minor, patch) ==
    [Mayor |-> mayor, Minor |-> minor, Patch |-> patch]

\* Version.Compare
Compare(v, v2) ==
    IF v.Mayor > v2.Mayor THEN 1
    ELSE IF v.Mayor < v2.Mayor THEN -1
    ELSE IF v.Minor > v2.Minor THEN 1
    ELSE IF v.Minor < v2.Minor THEN -1
    ELSE IF v.Patch > v2.Patch THEN 1
    ELSE IF v.Patch < v2.Patch THEN -1
    ELSE 0

TBLink(link, version, platform, locale) ==
    [Link |-> link, Version |-> version, Platform |-> platform,
     Locale |-> locale]

Platforms == {"win32", "linux"}
Locales == {"en", "es"}
LinkVersions == {Version(0, 0, 1), Version(0, 1, 0), Version(1, 0, 0)}
\* The links of the backend.
TBLinks ==
    {TBLink("a", v, "win32", "en") : v \in LinkVersions}
       \cup {TBLink("b", Version(1, 0, 0), "win32", "es")}
       \cup {TBLink("a", v, "linux", "en") :
                v \in {Version(0, 1, 0), Version(1, 0, 0)}}

\* The slice stored for platform and locale, nil if there is none.
LinksOf(d, platform, locale) ==
    IF platform \notin DOMAIN d.tblinks THEN <<>>
    ELSE IF locale \notin DOMAIN d.tblinks[platform] THEN <<>>
    ELSE d.tblinks[platform][locale]

\* GettorDistributor.deleteOldVersions(platform)
deleteOldVersions_KeepAll(d, platform) == d
deleteOldVersions(d, platform) ==
    LET locales == IF platform \in DOMAIN d.tblinks THEN d.tblinks[platform]
                   ELSE <<>>
        kept == [lo \in DOMAIN locales |->
                    SelectSeq(locales[lo],
                              LAMBDA r : Compare(d.version[platform],
                                                 r.Version) = 0)]
        left == [lo \in {l \in DOMAIN locales : Len(kept[l]) # 0} |->
                    kept[lo]]
    IN  IF DOMAIN left = {} THEN [d EXCEPT !.tblinks = MapDelete(@, platform)]
        ELSE [d EXCEPT !.tblinks = MapSet(@, platform, left)]

\* The first loop of applyDiff over a queue of diff.New: [d |-> the state,
\* needsCleanUp |-> the platforms marked].
RECURSIVE applyNew(_, _, _)
applyNew(d, queue, needsCleanUp) ==
    IF queue = <<>> THEN [d |-> d, needsCleanUp |-> needsCleanUp]
    ELSE LET link == Head(queue)
             ok == link.Platform \in DOMAIN d.version
             c == IF ok THEN Compare(d.version[link.Platform], link.Version)
                  ELSE -1
             d1 == IF c = -1
                   THEN [d EXCEPT !.version =
                            MapSet(@, link.Platform, link.Version)]
                   ELSE d
             locales == IF link.Platform \in DOMAIN d1.tblinks
                        THEN d1.tblinks[link.Platform] ELSE <<>>
             d2 == [d1 EXCEPT !.tblinks =
                       MapSet(@, link.Platform,
                              MapSet(locales, link.Locale,
                                     Append(LinksOf(d1, link.Platform,
                                                    link.Locale), link)))]
         IN  IF ok /\ c = 1 THEN applyNew(d, Tail(queue), needsCleanUp)
             ELSE applyNew(d2, Tail(queue),
                           IF ok /\ c = -1
                           THEN needsCleanUp \cup {link.Platform}
                           ELSE needsCleanUp)

\* list without its first element whose Link is link.
RemoveLink(list, link) ==
    LET hits == {i \in 1..Len(list) : list[i].Link = link}
        i == CHOOSE k \in hits : \A m \in hits : k <= m
    IN  IF hits = {} THEN list
        ELSE SubSeq(list, 1, i - 1) \o SubSeq(list, i + 1, Len(list))

\* The second loop of applyDiff over a queue of diff.Gone.
RECURSIVE applyGone(_, _)
applyGone(d, queue) ==
    IF queue = <<>> THEN d
    ELSE LET link == Head(queue)
             list == LinksOf(d, link.Platform, link.Locale)
         IN  IF link.Platform \notin DOMAIN d.tblinks
             THEN applyGone(d, Tail(queue))
             ELSE IF \A i \in 1..Len(list) : list[i].Link # link.Link
             THEN applyGone(d, Tail(queue))
             ELSE applyGone(
                    [d EXCEPT !.tblinks[link.Platform] =
                        MapSet(@, link.Locale, RemoveLink(list, link.Link))],
                    Tail(queue))

\* The last loop of applyDiff: deleteOldVersions for the platforms marked.
RECURSIVE cleanUp(_, _)
cleanUp(d, needsCleanUp) ==
    IF needsCleanUp = {} THEN d
    ELSE LET platform == CHOOSE p \in needsCleanUp : TRUE
         IN  cleanUp(deleteOldVersions(d, platform), needsCleanUp \ {platform})

\* GettorDistributor.applyDiff(diff), diff.New and diff.Gone holding one
\* queue each, of type rType.
applyDiff(d, rType, new, gone) ==
    LET n == IF rType # "tblink" THEN [d |-> d, needsCleanUp |-> {}]
             ELSE applyNew(d, new, {})
        g == IF rType # "tblink" THEN n.d ELSE applyGone(n.d, gone)
    IN  cleanUp(g, n.needsCleanUp)

\* The number of links stored.
RECURSIVE LinkCount(_, _)
LinkCount(d, pairs) ==
    IF pairs = {} THEN 0
    ELSE LET x == CHOOSE y \in pairs : TRUE
         IN  Len(LinksOf(d, x[1], x[2])) + LinkCount(d, pairs \ {x})

\* The distributor before its first diff. seen is the history of the New
\* diffs: the versions they held, by platform.
InitGettor ==
    /\ hashnodes = [t \in Types |-> <<>>]
    /\ stencils = [t \in Types |-> NilStencil]
    /\ now = 0
    /\ rng = Seed(1)
    /\ EventRecipients = <<>>
    /\ chans = [c \in ChanIds |-> <<>>]
    /\ call = [p \in Procs |-> Idle]
    /\ OnlyFunctional = FALSE
    /\ eval = [e \in Evaluators |-> Idle]
    /\ kraken = KrakenStart
    /\ dist = [tblinks |-> <<>>, version |-> <<>>,
               seen |-> [p \in Platforms |-> {}]]
    /\ ret = NoRet

\* housekeeping receives a diff and applies it. ret tells whether the diff
\* held a link older than the version kept (older) and whether stored links
\* were superseded by it (superseded).
DoApplyDiff(rType, new, gone) ==
    /\ \E d \in {applyDiff(dist, rType, new, gone)} :
           /\ LinkCount(d, Platforms \X Locales) <= MaxLinks
           /\ dist' = [d EXCEPT !.seen =
                          [p \in Platforms |->
                              IF rType # "tblink" THEN @[p]
                              ELSE @[p] \cup {new[i].Version :
                                     i \in {j \in 1..Len(new) :
                                               new[j].Platform = p}}]]
           /\ ret' = [op |-> "applyDiff", type |-> rType,
                      older |-> /\ rType = "tblink"
                                /\ \E i \in 1..Len(new) :
                                      Compare(new[i].Version,
                                              d.version[new[i].Platform]) = -1,
                      superseded |->
                          \E p \in DOMAIN dist.tblinks :
                              /\ dist.version[p] # d.version[p]
                              /\ \E lo \in Locales : LinksOf(d, p, lo) # <<>>]
    /\ UNCHANGED <<hashnodes, stencils, OnlyFunctional, eval, kraken, now,
                   rng, EventRecipients, chans, call>>

\* The queues of a diff: up to two links.
LinkQueues ==
    {<<>>} \cup {<<l>> : l \in TBLinks}
           \cup {<<l1, l2>> : l1 \in TBLinks, l2 \in TBLinks}

NextGettor ==
    \/ \E new \in LinkQueues, gone \in {q \in LinkQueues : Len(q) <= 1} :
          DoApplyDiff("tblink", new, gone)
    \/ \E l \in TBLinks : DoApplyDiff("obfs4", <<l>>, <<>>)

SpecGettor == InitGettor /\ [][NextGettor]_vars

(***************************************************************************)
(* Specification of the replicas: two subscribers apply the diffs they     *)
(* receive to a ring of their own while the ingestion goroutine adds and   *)
(* prunes.                                                                 *)
(***************************************************************************)
\* One of the three loops of Hashring.ApplyDiff over the resources of a
\* diff: Add for New, AddOrUpdate for Changed, Remove for Gone.
RECURSIVE ApplyLoop(_, _, _, _)
ApplyLoop(h, resources, event, t) ==
    IF resources = <<>> THEN h
    ELSE LET r == Head(resources)
             g == IF event = ResourceIsNew THEN Add(h, r, t).h
                  ELSE IF event = ResourceChanged THEN AddOrUpdate(h, r, t).h
                  ELSE Remove(h, r).h
         IN  ApplyLoop(g, Tail(resources), event, t)

\* Hashring.ApplyDiff
ApplyDiff_GoneFirst(h, d, t) ==
    ApplyLoop(ApplyLoop(ApplyLoop(h, d.Gone, ResourceIsGone, t),
                        d.New, ResourceIsNew, t),
              d.Changed, ResourceChanged, t)
ApplyDiff(h, d, t) ==
    ApplyLoop(ApplyLoop(ApplyLoop(h, d.New, ResourceIsNew, t),
                        d.Changed, ResourceChanged, t),
              d.Gone, ResourceIsGone, t)

\* What the ingestion loop submits: bridge 2 with the distribution request
\* "https" or "moat" in its descriptor, bridge 1 without a request.
ReplicaInputs ==
    {NewDummy(1, 2, "obfs4", "https", 1), NewDummy(2, 2, "obfs4", "moat", 1),
     NewDummy(1, 1, "obfs4", "", 1)}

ReplicaChans == {1, 2}

InitReplica ==
    /\ hashnodes = [t \in Types |-> <<>>]
    /\ stencils = [t \in Types |->
                      IF t = "obfs4" THEN BuildStencil(Proportions)
                      ELSE IF t = "tblink" THEN NilStencil ELSE NoType]
    /\ now = 0
    /\ rng = Seed(1)
    /\ EventRecipients =
          [d \in {"https", "moat"} |->
              EventRecipient(ResourceRequest(d, {"obfs4"}),
                             IF d = "https" THEN <<1>> ELSE <<2>>)]
    /\ chans = [c \in ChanIds |-> <<>>]
    /\ call = [p \in Procs |-> Idle]
    /\ OnlyFunctional = FALSE
    /\ eval = [e \in Evaluators |-> Idle]
    /\ kraken = KrakenStart
    /\ dist = [replica |-> [c \in ReplicaChans |-> <<>>]]
    /\ ret = NoRet

\* The subscriber that holds channel ch receives the next diff and applies
\* it to its ring.
Consume(ch) ==
    /\ chans[ch] # <<>>
    /\ chans' = [chans EXCEPT ![ch] = Tail(@)]
    /\ dist' = [dist EXCEPT !.replica[ch] = ApplyDiff(@, Head(chans[ch]), now)]
    /\ ret' = [op |-> "ApplyDiff", c |-> ch, diff |-> Head(chans[ch])]
    /\ UNCHANGED <<hashnodes, stencils, OnlyFunctional, eval, kraken, now,
                   rng, EventRecipients, call>>

NextReplica ==
    \/ \E r \in ReplicaInputs : BAdd("kraken", r)
    \/ BPrune("kraken")
    \/ Step("kraken")
    \/ Send("kraken")
    \/ \E ch \in ReplicaChans : Consume(ch)
    \/ Tick

SpecReplica == InitReplica /\ [][NextReplica]_vars

(***************************************************************************)
(* Specification of the ingestion of blocked bridges: the ingestion loop   *)
(* annotates the transports with the blocked-in set of the block list and  *)
(* submits them.                                                           *)
(***************************************************************************)
\* BridgeBase.oidString: "%s|%v|%v" of Distribution, ORAddresses and Flags.
oidString(b) == <<b.Distribution, b.ORAddresses, b.Flags>>

\* Transport.Oid: the hash key of the bridge line and oidString.
TransportOid(line, b) == <<line, oidString(b)>>

\* The bridges that the descriptors give: fingerprint, distribution request
\* and flags.
Bridges ==
    [Fingerprint : {1}, Distribution : {"", "https"}, ORAddresses : {<<>>},
     Flags : {"running", "running stable"}]

\* The blocked-in sets that the block list gives for a fingerprint.
LocationSets == {{}, {"ru"}}

\* The transport of bridge b as the loop of reloadBridgeDescriptors submits
\* it: Flags and Distribution of the bridge, the blocked-in set, and the
\* bridge line as its Uid.
Annotated(b, blockedIn) ==
    [uid |-> b.Fingerprint, oid |-> TransportOid(b.Fingerprint, b),
     type |-> "obfs4", dist |-> b.Distribution, expiry |-> 2,
     state |-> "untested", blockedIn |-> blockedIn]

\* Resource.BlockedIn
BlockedIn(r) == r.blockedIn

NextBlocked ==
    \/ \E b \in Bridges, blockedIn \in LocationSets :
          BAdd("kraken", Annotated(b, blockedIn))
    \/ Step("kraken")
    \/ Send("kraken")
    \/ \E ch \in ChanIds : Recv(ch)

SpecBlocked == InitPrune /\ [][NextBlocked]_vars

(***************************************************************************)
(* Specification of subscribing: distributors register channels with       *)
(* requests of their own while the ingestion goroutine adds resources.     *)
(***************************************************************************)
SubscribeInputs ==
    {NewDummy(1, 1, "obfs4", "", 1), NewDummy(1, 1, "tblink", "", 1)}

InitSubscribe ==
    /\ hashnodes = [t \in Types |-> <<>>]
    /\ stencils = [t \in Types |->
                      IF t = "obfs4" THEN BuildStencil(Proportions)
                      ELSE IF t = "tblink" THEN NilStencil ELSE NoType]
    /\ now = 0
    /\ rng = Seed(1)
    /\ EventRecipients = <<>>
    /\ chans = [c \in ChanIds |-> <<>>]
    /\ call = [p \in Procs |-> Idle]
    /\ OnlyFunctional = FALSE
    /\ eval = [e \in Evaluators |-> Idle]
    /\ kraken = KrakenStart
    /\ dist = [requests |-> <<>>]
    /\ ret = NoRet

\* A distributor calls RegisterChan(req, recipient) for a channel it has
\* made; the call takes the write lock of the registry. dist.requests keeps
\* the request that each channel was registered with.
Subscribe(req, recipient) ==
    /\ \A p \in Procs : ~HoldsRLock(p)
    /\ recipient \notin DOMAIN dist.requests
    /\ EventRecipients' = RegisterChan(EventRecipients, req, recipient)
    /\ dist' = [dist EXCEPT !.requests = MapSet(@, recipient, req)]
    /\ ret' = [op |-> "RegisterChan", dist |-> req.RequestOrigin,
               ch |-> recipient, pre |-> EventRecipients]
    /\ UNCHANGED <<hashnodes, stencils, OnlyFunctional, eval, kraken, now,
                   rng, chans, call>>

NextSubscribe ==
    \/ \E d \in RegistryNames, t \in {"obfs4", "tblink"}, ch \in ChanIds :
          Subscribe(ResourceRequest(d, {t}), ch)
    \/ \E r \in SubscribeInputs : BAdd("kraken", r)
    \/ Step("kraken")
    \/ Send("kraken")
    \/ \E ch \in ChanIds : Recv(ch)

SpecSubscribe == InitSubscribe /\ [][NextSubscribe]_vars

(***************************************************************************)
(* Specification of unregistering: the subscribers of channels 1 and 2     *)
(* receive until they stop and call UnregisterChan, while the ingestion    *)
(* goroutine adds resources.                                               *)
(***************************************************************************)
\* The distributor that registered channel ch.
HolderOf(ch) == IF ch = 1 THEN "https" ELSE "moat"

InitUnregister ==
    /\ hashnodes = [t \in Types |-> <<>>]
    /\ stencils = [t \in Types |->
                      IF t = "obfs4" THEN BuildStencil(Proportions)
                      ELSE IF t = "tblink" THEN NilStencil ELSE NoType]
    /\ now = 0
    /\ rng = Seed(1)
    /\ EventRecipients =
          [d \in {"https", "moat"} |->
              EventRecipient(ResourceRequest(d, {"obfs4"}),
                             IF d = "https" THEN <<1>> ELSE <<2>>)]
    /\ chans = [c \in ChanIds |-> <<>>]
    /\ call = [p \in Procs |-> Idle]
    /\ OnlyFunctional = FALSE
    /\ eval = [e \in Evaluators |-> Idle]
    /\ kraken = KrakenStart
    /\ dist = [sub |-> [c \in {1, 2} |-> "receiving"]]
    /\ ret = NoRet

\* A goroutine is inside ctx.Lock() of UnregisterChan, waiting for the
\* readers of the registry lock to leave.
WriterWaiting == \E c \in DOMAIN dist.sub : dist.sub[c] = "waiting"

\* The subscriber of channel ch receives the next diff.
SubRecv(ch) ==
    /\ dist.sub[ch] = "receiving"
    /\ Recv(ch)

\* The subscriber of channel ch stops receiving and calls UnregisterChan:
\* ctx.Lock() waits while a reader holds the lock.
StartUnregister(ch) ==
    /\ dist.sub[ch] = "receiving"
    /\ dist' = [dist EXCEPT !.sub[ch] = "waiting"]
    /\ ret' = NoRet
    /\ UNCHANGED <<hashnodes, stencils, OnlyFunctional, eval, kraken, now,
                   rng, EventRecipients, chans, call>>

\* ctx.Lock() is granted, UnregisterChan removes the channel and returns.
FinishUnregister(ch) ==
    /\ dist.sub[ch] = "waiting"
    /\ \A p \in Procs : ~HoldsRLock(p)
    /\ EventRecipients' =
          UnregisterChan(EventRecipients, HolderOf(ch), ch).er
    /\ dist' = [dist EXCEPT !.sub[ch] = "done"]
    /\ ret' = [op |-> "UnregisterChan", dist |-> HolderOf(ch), ch |-> ch,
               pre |-> EventRecipients, panic |-> FALSE]
    /\ UNCHANGED <<hashnodes, stencils, OnlyFunctional, eval, kraken, now,
                   rng, chans, call>>

\* The ingestion goroutine goes on; ctx.RLock() of propagateUpdate waits
\* while a writer is waiting for the lock.
IngestStep ==
    /\ call["kraken"].pc = "run" /\ call["kraken"].todo # <<>>
          => ~WriterWaiting
    /\ Step("kraken")

NextUnregister ==
    \/ \E r \in ReplicaInputs : BAdd("kraken", r)
    \/ IngestStep
    \/ Send("kraken")
    \/ \E ch \in {1, 2} : SubRecv(ch)
    \/ \E ch \in {1, 2} : StartUnregister(ch)
    \/ \E ch \in {1, 2} : FinishUnregister(ch)

SpecUnregister == InitUnregister /\ [][NextUnregister]_vars

(***************************************************************************)
(* Specification of the health checks: which calls of Test() the           *)
(* operations of a ring start with "go r.Test()".                          *)
(***************************************************************************)
\* A resource with its ResourceTest: State and LastTested.
NewTested(o, u, st, lt) ==
    [uid |-> u, oid |-> o, type |-> RingType, dist |-> "", expiry |-> 1,
     state |-> st, lastTested |-> lt]

LastTested(r) == r.lastTested

\* Hashring.maybeTestResource(r) at time t: the resources on which it
\* starts Test(), none or one.
maybeTestResource(h, r, t) ==
    LET g == getIndex(h, Uid(r))
        oldR == h[g.i + 1].elem
    IN  IF g.found /\ Oid(oldR) = Oid(r)
        THEN IF /\ TestResult(oldR).State # "untested"
                /\ t - LastTested(oldR) < Expiry(oldR)
             THEN <<>>
             ELSE <<oldR>>
        ELSE <<r>>

\* The calls of Test() that Hashring.Add(r) starts: it returns before
\* maybeTestResource when the Uid is present.
AddTests(h, r, t) ==
    IF getIndex(h, Uid(r)).found THEN <<>> ELSE maybeTestResource(h, r, t)

\* The calls of Test() that Hashring.AddOrUpdate(r) starts.
AddOrUpdateTests(h, r, t) == maybeTestResource(h, r, t)

\* The calls of Test() that Hashring.Filter starts: it puts the nodes of h
\* from position k on that pass into the new ring acc with Add.
RECURSIVE FilterTests(_, _, _, _, _, _, _, _)
FilterTests(h, s, distName, k, acc, g, t, tests) ==
    IF k > Len(h) THEN tests
    ELSE LET f == FilterFunc(s, distName, h[k].elem, g)
         IN  FilterTests(h, s, distName, k + 1,
                         IF f.b THEN Add(acc, h[k].elem, t).h ELSE acc,
                         f.rng, t,
                         IF f.b THEN tests \o AddTests(acc, h[k].elem, t)
                         ELSE tests)

\* The calls of Test() that SplitHashring.GetForDist starts.
GetForDistTests(h, s, distName, g, t) ==
    IF IsNil(s) \/ ~GetUpperEnd(s).ok THEN <<>>
    ELSE FilterTests(h, s, distName, 1, <<>>, g, t, <<>>)

CheckInputs ==
    {[NewTested(o, u, st, 0) EXCEPT !.dist = PinOf(u)] :
        o \in Oids, u \in {1, 2}, st \in {"untested", "functional"}}

InitCheck ==
    /\ hashnodes = [t \in Types |-> <<>>]
    /\ stencils = [t \in Types |->
                      IF t = RingType THEN BuildStencil(Proportions)
                      ELSE NilStencil]
    /\ now = 0
    /\ rng = Seed(1)
    /\ EventRecipients = <<>>
    /\ chans = [c \in ChanIds |-> <<>>]
    /\ call = [p \in Procs |-> Idle]
    /\ OnlyFunctional = FALSE
    /\ eval = [e \in Evaluators |-> Idle]
    /\ kraken = KrakenStart
    /\ dist = NoDist
    /\ ret = NoRet

\* Hashring.Add(r) and the calls of Test() it starts.
CAdd(r) ==
    LET x == Add(hashnodes[RingType], r, now)
    IN  /\ hashnodes' = [hashnodes EXCEPT ![RingType] = x.h]
        /\ ret' = [op |-> "Test", by |-> "Add", r |-> r, t |-> now,
                   pre |-> hashnodes[RingType],
                   tests |-> AddTests(hashnodes[RingType], r, now)]
        /\ UNCHANGED <<now, backendVars>>

CAddOrUpdate(r) ==
    LET x == AddOrUpdate(hashnodes[RingType], r, now)
    IN  /\ hashnodes' = [hashnodes EXCEPT ![RingType] = x.h]
        /\ ret' = [op |-> "Test", by |-> "AddOrUpdate", r |-> r, t |-> now,
                   pre |-> hashnodes[RingType],
                   tests |-> AddOrUpdateTests(hashnodes[RingType], r, now)]
        /\ UNCHANGED <<now, backendVars>>

\* BackendResources.Get(distName, RingType), no other goroutine using the
\* random generator.
CGet(distName) ==
    LET x == BackendGet(TRUE, OnlyFunctional, hashnodes[RingType],
                        stencils[RingType], distName, rng, now)
    IN  /\ rng' = x.rng
        /\ ret' = [op |-> "Query", by |-> "Get", dist |-> distName,
                   res |-> x.res, pre |-> hashnodes[RingType],
                   tests |-> GetForDistTests(hashnodes[RingType],
                                             stencils[RingType], distName,
                                             rng, now)]
        /\ UNCHANGED <<hashnodes, cfgVars, now, EventRecipients, chans, call>>

NextCheck ==
    \/ \E r \in CheckInputs : CAdd([r EXCEPT !.lastTested = now])
    \/ \E r \in CheckInputs : CAddOrUpdate([r EXCEPT !.lastTested = now])
    \/ \E d \in {"https", "moat"} : CGet(d)
    \/ Tick

SpecCheck == InitCheck /\ [][NextCheck]_vars

(***************************************************************************)
(* Specification of the locks: BackendResources.Add and Prune step by      *)
(* step through the write lock of the ring, the goroutines of "go          *)
(* r.Test()", the read lock of the registry in propagateUpdate, and a      *)
(* query under the read lock of the ring.                                  *)
(***************************************************************************)
LockInputs == {NewTested(o, 1, "untested", 0) : o \in Oids}

\* dist.ring is the RWMutex of the ring, dist.stage the position of the
\* ingestion goroutine inside Hashring.AddOrUpdate or Hashring.Prune,
\* dist.reader the position of a request handler inside Hashring.Filter or
\* GetAll, dist.tests the goroutines started with "go r.Test()": fresh while the
\* operation that started them has not returned.
InitLocks ==
    /\ hashnodes = [t \in Types |-> <<>>]
    /\ stencils = [t \in Types |->
                      IF t = RingType THEN BuildStencil(Proportions)
                      ELSE NilStencil]
    /\ now = 0
    /\ rng = Seed(1)
    /\ EventRecipients =
          [d \in {"https", "moat"} |->
              EventRecipient(ResourceRequest(d, {RingType}),
                             IF d = "https" THEN <<1>> ELSE <<2>>)]
    /\ chans = [c \in ChanIds |-> <<>>]
    /\ call = [p \in Procs |-> Idle]
    /\ OnlyFunctional = FALSE
    /\ eval = [e \in Evaluators |-> Idle]
    /\ kraken = KrakenStart
    /\ dist = [ring |-> [writer |-> "", readers |-> {}],
               stage |-> Idle, reader |-> Idle, tests |-> {}]
    /\ ret = NoRet

lockUnchanged ==
    UNCHANGED <<stencils, OnlyFunctional, eval, kraken, now, rng,
                EventRecipients, chans>>

\* BackendResources.Add(r) enters hashring.AddOrUpdate(r): h.Lock().
LAdd(r) ==
    /\ dist.stage.pc = "idle" /\ call["kraken"].pc = "idle"
    /\ dist.ring.writer = "" /\ dist.ring.readers = {}
    /\ dist' = [dist EXCEPT !.ring.writer = "kraken",
                            !.stage = [pc |-> "locked", op |-> "Add",
                                       r |-> r]]
    /\ ret' = NoRet
    /\ UNCHANGED <<hashnodes, call>>
    /\ lockUnchanged

\* h.maybeTestResource(r): "go r.Test()" starts a goroutine.
LMaybeTest ==
    /\ dist.stage.pc = "locked" /\ dist.stage.op = "Add"
    /\ LET ts == AddOrUpdateTests(hashnodes[RingType], dist.stage.r, now)
       IN  dist' = [dist EXCEPT
                      !.stage.pc = "tested",
                      !.tests = @ \cup
                         {[r |-> ts[i], status |-> "spawned",
                           fresh |-> TRUE] : i \in 1..Len(ts)}]
    /\ ret' = NoRet
    /\ UNCHANGED <<hashnodes, call>>
    /\ lockUnchanged

\* The rest of the body of AddOrUpdate.
LUpdate ==
    /\ dist.stage.pc = "tested"
    /\ LET x == AddOrUpdate(hashnodes[RingType], dist.stage.r, now)
       IN  /\ hashnodes' = [hashnodes EXCEPT ![RingType] = x.h]
           /\ dist' = [dist EXCEPT !.stage =
                          [pc |-> "updated", op |-> "Add", r |-> @.r,
                           event |-> x.event]]
    /\ ret' = NoRet
    /\ UNCHANGED call
    /\ lockUnchanged

\* BackendResources.Prune() enters hashring.Prune(): h.Lock().
LPrune ==
    /\ dist.stage.pc = "idle" /\ call["kraken"].pc = "idle"
    /\ dist.ring.writer = "" /\ dist.ring.readers = {}
    /\ dist' = [dist EXCEPT !.ring.writer = "kraken",
                            !.stage = [pc |-> "locked", op |-> "Prune"]]
    /\ ret' = NoRet
    /\ UNCHANGED <<hashnodes, call>>
    /\ lockUnchanged

\* The body of Hashring.Prune.
LPruneBody ==
    /\ dist.stage.pc = "locked" /\ dist.stage.op = "Prune"
    /\ LET x == Prune(hashnodes[RingType], now)
       IN  /\ hashnodes' = [hashnodes EXCEPT ![RingType] = x.h]
           /\ dist' = [dist EXCEPT !.stage =
                          [pc |-> "updated", op |-> "Prune",
                           pruned |-> x.pruned]]
    /\ ret' = NoRet
    /\ UNCHANGED call
    /\ lockUnchanged

\* The ring operation returns: the deferred h.Unlock() runs, and
\* BackendResources.Add or Prune goes on to propagateUpdate.
LUnlock_KeepLock ==
    /\ dist.stage.pc = "updated"
    /\ dist' = [dist EXCEPT
                  !.stage = Idle,
                  !.tests = {[x EXCEPT !.fresh = FALSE] : x \in @}]
    /\ LET todo == IF dist.stage.op = "Prune"
                   THEN [i \in 1..Len(dist.stage.pruned) |->
                            [r |-> dist.stage.pruned[i],
                             event |-> ResourceIsGone]]
                   ELSE IF dist.stage.event = ResourceUnchanged THEN <<>>
                   ELSE <<[r |-> dist.stage.r, event |-> dist.stage.event]>>
       IN  call' = [call EXCEPT !["kraken"] =
                       Running(IF dist.stage.op = "Prune" THEN "BPrune"
                               ELSE "BAdd", NoCur, <<>>, <<>>, todo, <<>>,
                               NoCur, <<>>, <<>>)]
    /\ ret' = NoRet
    /\ UNCHANGED hashnodes
    /\ lockUnchanged
LUnlock ==
    /\ dist.stage.pc = "updated"
    /\ dist' = [dist EXCEPT
                  !.ring.writer = "",
                  !.stage = Idle,
                  !.tests = {[x EXCEPT !.fresh = FALSE] : x \in @}]
    /\ LET todo == IF dist.stage.op = "Prune"
                   THEN [i \in 1..Len(dist.stage.pruned) |->
                            [r |-> dist.stage.pruned[i],
                             event |-> ResourceIsGone]]
                   ELSE IF dist.stage.event = ResourceUnchanged THEN <<>>
                   ELSE <<[r |-> dist.stage.r, event |-> dist.stage.event]>>
       IN  call' = [call EXCEPT !["kraken"] =
                       Running(IF dist.stage.op = "Prune" THEN "BPrune"
                               ELSE "BAdd", NoCur, <<>>, <<>>, todo, <<>>,
                               NoCur, <<>>, <<>>)]
    /\ ret' = NoRet
    /\ UNCHANGED hashnodes
    /\ lockUnchanged

\* The scheduler runs a goroutine started with "go r.Test()".
TestStart ==
    /\ \E x \in dist.tests :
          /\ x.status = "spawned"
          /\ dist' = [dist EXCEPT !.tests =
                         (@ \ {x}) \cup {[x EXCEPT !.status = "running"]}]
    /\ ret' = NoRet
    /\ UNCHANGED <<hashnodes, call>>
    /\ lockUnchanged

\* Test() returns and its goroutine ends.
TestDone ==
    /\ \E x \in dist.tests :
          /\ x.status = "running"
          /\ dist' = [dist EXCEPT !.tests = @ \ {x}]
    /\ ret' = NoRet
    /\ UNCHANGED <<hashnodes, call>>
    /\ lockUnchanged

\* A request handler enters Hashring.Filter or GetAll: h.RLock().
LRead ==
    /\ dist.ring.writer = "" /\ "other" \notin dist.ring.readers
    /\ dist' = [dist EXCEPT !.ring.readers = @ \cup {"other"},
                            !.reader = [pc |-> "locked"]]
    /\ ret' = NoRet
    /\ UNCHANGED <<hashnodes, call>>
    /\ lockUnchanged

\* The handler is in Hashring.Filter with the filter function of distName:
\* the loop over the nodes starts with an empty new ring.
LFilter(distName) ==
    /\ "other" \in dist.ring.readers /\ dist.reader.pc = "locked"
    /\ ~IsNil(stencils[RingType]) /\ GetUpperEnd(stencils[RingType]).ok
    /\ dist' = [dist EXCEPT !.reader =
                   [pc |-> "filter", dist |-> distName, k |-> 1,
                    acc |-> <<>>, seeded |-> FALSE]]
    /\ ret' = NoRet
    /\ UNCHANGED <<hashnodes, call>>
    /\ lockUnchanged

\* The reader after its filter function has answered b for node k: a node
\* that passes goes into the new ring with Add, which starts "go r.Test()".
FilterDecided(b) ==
    LET rd == dist.reader
        r == hashnodes[RingType][rd.k].elem
        ts == IF b THEN AddTests(rd.acc, r, now) ELSE <<>>
    IN  [dist EXCEPT
           !.reader = [rd EXCEPT !.k = @ + 1, !.seeded = FALSE,
                                 !.acc = IF b THEN Add(@, r, now).h ELSE @],
           !.tests = @ \cup {[r |-> ts[i], status |-> "spawned",
                              fresh |-> TRUE] : i \in 1..Len(ts)}]

\* One step of the loop of Filter: the rand.Seed of the filter function,
\* or its rand.Intn and the Add of a node that passes, or the end of the
\* loop.
LFilterStep ==
    /\ "other" \in dist.ring.readers /\ dist.reader.pc = "filter"
    /\ LET rd == dist.reader
           h == hashnodes[RingType]
       IN  IF rd.k > Len(h)
           THEN /\ dist' = [dist EXCEPT !.reader = [pc |-> "filtered"]]
                /\ rng' = rng
           ELSE IF rd.seeded
           THEN LET x == FilterDraw(stencils[RingType], rd.dist, rng)
                IN  /\ rng' = x.rng
                    /\ dist' = FilterDecided(x.b)
           ELSE LET e == FilterEnter(rd.dist, h[rd.k].elem)
                IN  IF e.done
                    THEN /\ rng' = rng
                         /\ dist' = FilterDecided(e.b)
                    ELSE /\ rng' = e.rng
                         /\ dist' = [dist EXCEPT !.reader.seeded = TRUE]
    /\ ret' = NoRet
    /\ UNCHANGED <<hashnodes, call, stencils, OnlyFunctional, eval, kraken,
                   now, EventRecipients, chans>>

\* The query returns: the deferred h.RUnlock() runs.
LReadDone ==
    /\ "other" \in dist.ring.readers
    /\ dist.reader.pc \in {"locked", "filtered"}
    /\ dist' = [dist EXCEPT
                  !.ring.readers = @ \ {"other"},
                  !.reader = Idle,
                  !.tests = {[x EXCEPT !.fresh = FALSE] : x \in @}]
    /\ ret' = NoRet
    /\ UNCHANGED <<hashnodes, call>>
    /\ lockUnchanged

NextLocks ==
    \/ \E r \in LockInputs : LAdd(r)
    \/ LMaybeTest
    \/ LUpdate
    \/ LPrune
    \/ LPruneBody
    \/ LUnlock
    \/ TestStart
    \/ TestDone
    \/ LRead
    \/ \E d \in {"https", "moat"} : LFilter(d)
    \/ LFilterStep
    \/ LReadDone
    \/ Step("kraken")
    \/ Send("kraken")
    \/ \E ch \in {1, 2} : Recv(ch)
    \/ Tick

SpecLocks == InitLocks /\ [][NextLocks]_vars

(***************************************************************************)
(* Specification of ApplyDiff: a distributor applies diffs to a Hashring   *)
(* of its own (dist.ring) and to a Collection (hashnodes).                 *)
(***************************************************************************)
\* The resources of the diffs; the Uid of a resource tells its type.
TypeOfUid(u) == IF u = 1 THEN "obfs4" ELSE "tblink"
DiffInputs == {NewDummy(o, u, TypeOfUid(u), "", 1) : o \in Oids, u \in {1, 2}}

\* A ResourceMap with the given resources, at most one here.
ResourceMap(rs) == [ty \in {Type(r) : r \in rs} |->
                       <<CHOOSE r \in rs : Type(r) = ty>>]

\* The queue of type ty in the ResourceMap m, nil if there is none.
QueueOf(m, ty) == IF ty \in DOMAIN m THEN m[ty] ELSE <<>>

\* The queues of the ResourceMap m one after the other, as a range over the
\* map visits them in the given order.
RECURSIVE Flatten(_, _)
Flatten(m, order) ==
    IF order = <<>> THEN <<>>
    ELSE m[Head(order)] \o Flatten(m, Tail(order))

\* Hashring.ApplyDiff(d) for a diff of ResourceMaps: the three ranges visit
\* the maps in the orders oN, oC and oG.
HashringApplyDiff(h, d, oN, oC, oG, t) ==
    ApplyDiff(h, [New |-> Flatten(d.New, oN),
                  Changed |-> Flatten(d.Changed, oC),
                  Gone |-> Flatten(d.Gone, oG)], t)

\* Collection.ApplyDiff(diff): every queue goes to the ring of its type.
CollectionApplyDiff(rings, d, t) ==
    [ty \in DOMAIN rings |->
        ApplyDiff(rings[ty], [New |-> QueueOf(d.New, ty),
                              Changed |-> QueueOf(d.Changed, ty),
                              Gone |-> QueueOf(d.Gone, ty)], t)]

Diffs ==
    {[New |-> ResourceMap(n), Changed |-> ResourceMap(c),
      Gone |-> ResourceMap(g)] :
        n \in {{}} \cup {{r} : r \in DiffInputs},
        c \in {{}} \cup {{r} : r \in DiffInputs},
        g \in {{}} \cup {{r} : r \in {x \in DiffInputs : Oid(x) = 1}}}

InitDiff ==
    /\ hashnodes = [t \in Types |-> <<>>]
    /\ stencils = [t \in Types |->
                      IF t = "vanilla" THEN NoType ELSE NilStencil]
    /\ now = 0
    /\ rng = Seed(1)
    /\ EventRecipients = <<>>
    /\ chans = [c \in ChanIds |-> <<>>]
    /\ call = [p \in Procs |-> Idle]
    /\ OnlyFunctional = FALSE
    /\ eval = [e \in Evaluators |-> Idle]
    /\ kraken = KrakenStart
    /\ dist = [ring |-> <<>>]
    /\ ret = NoRet

\* d.oldHashring.ApplyDiff(diff)
DiffHashring(d) ==
    /\ \E oN \in Orders(DOMAIN d.New), oC \in Orders(DOMAIN d.Changed),
          oG \in Orders(DOMAIN d.Gone) :
             dist' = [dist EXCEPT !.ring =
                         HashringApplyDiff(@, d, oN, oC, oG, now)]
    /\ ret' = [op |-> "ApplyDiff", on |-> "Hashring", diff |-> d,
               pre |-> [ty \in Types |-> dist.ring]]
    /\ UNCHANGED <<hashnodes, stencils, OnlyFunctional, eval, kraken, now,
                   rng, EventRecipients, chans, call>>

\* collection.ApplyDiff(diff)
DiffCollection(d) ==
    /\ hashnodes' = CollectionApplyDiff(hashnodes, d, now)
    /\ ret' = [op |-> "ApplyDiff", on |-> "Collection", diff |-> d,
               pre |-> hashnodes]
    /\ UNCHANGED <<cfgVars, now, rng, EventRecipients, chans, call>>

NextDiff ==
    \/ \E d \in Diffs : DiffHashring(d)
    \/ \E d \in Diffs : DiffCollection(d)

SpecDiff == InitDiff /\ [][NextDiff]_vars

(***************************************************************************)
(* Specification of the submissions of reloadBridgeDescriptors: the loop   *)
(* over the assembled bridges and their transports.                        *)
(***************************************************************************)
\* What an Addr can hold: an IP address of one of the classes that net.IP
\* tells apart, or a string that net.ParseIP rejects.
AddrClasses ==
    {"public", "unspecified", "private", "loopback", "multicast",
     "linklocal", "hostname"}

\* Addr.Invalid
Invalid(a) ==
    IF a = "hostname" THEN FALSE
    ELSE a \in {"unspecified", "private", "loopback", "multicast", "linklocal"}

\* A bridge as assembled from the network status and the extra-info files.
AssembledBridge(f, a, ts) == [Fingerprint |-> f, Address |-> a, Transports |-> ts]

\* What rcol.Add is called with: the k-th transport of a bridge, or the
\* bridge itself (k = 0).
Submission(b, k) ==
    [Fingerprint |-> b.Fingerprint, k |-> k,
     Address |-> IF k = 0 THEN b.Address ELSE b.Transports[k]]

\* The body of the loop over the bridges, for bridge b: the calls of
\* rcol.Add in order.
RECURSIVE SubmitTransports(_, _)
SubmitTransports(b, k) ==
    IF k > Len(b.Transports) THEN <<>>
    ELSE IF Invalid(b.Transports[k]) THEN SubmitTransports(b, k + 1)
    ELSE <<Submission(b, k)>> \o SubmitTransports(b, k + 1)

SubmitBridge_Always(b) ==
    SubmitTransports(b, 1)
        \o IF Invalid(b.Address) THEN <<>> ELSE <<Submission(b, 0)>>
SubmitBridge(b) ==
    SubmitTransports(b, 1)
        \o IF Len(b.Transports) = 0
           THEN IF Invalid(b.Address) THEN <<>> ELSE <<Submission(b, 0)>>
           ELSE <<>>

\* The loop over the bridges in the given order.
RECURSIVE SubmitAll(_, _)
SubmitAll(bs, order) ==
    IF order = <<>> THEN <<>>
    ELSE SubmitBridge(CHOOSE b \in bs : b.Fingerprint = Head(order))
            \o SubmitAll(bs, Tail(order))

\* The resource of a submission: a vanilla bridge or an obfs4 transport.
ResourceOf(s) ==
    NewDummy(1, 10 * s.Fingerprint + s.k,
             IF s.k = 0 THEN "vanilla" ELSE "obfs4", "", 1)

\* BackendResources.Add for the submissions in order: a resource whose type
\* has no ring is refused, any other goes through hashring.AddOrUpdate.
\* Nobody has subscribed, so that propagateUpdate finds no recipient.
RECURSIVE AddSubmissions(_, _, _)
AddSubmissions(rings, ss, t) ==
    IF ss = <<>> THEN rings
    ELSE LET r == ResourceOf(Head(ss))
         IN  AddSubmissions(IF ~Exists(Type(r)) THEN rings
                            ELSE [rings EXCEPT
                                    ![Type(r)] = AddOrUpdate(@, r, t).h],
                            Tail(ss), t)

AssembledBridges(f) ==
    {AssembledBridge(f, a, ts) :
        a \in {"public", "private", "hostname"},
        ts \in {<<>>} \cup {<<x>> : x \in {"public", "loopback"}}
                 \cup {<<x, y>> : x, y \in {"public", "loopback"}}}

\* The maps of bridges by fingerprint: one bridge, or one with a second.
SecondBridges ==
    {AssembledBridge(2, "public", <<"loopback", "public">>),
     AssembledBridge(2, "private", <<>>)}

BridgeMaps ==
    {{}} \cup {{b} : b \in AssembledBridges(1)}
         \cup {{b, c} : b \in AssembledBridges(1), c \in SecondBridges}

InitIngest ==
    /\ hashnodes = [t \in Types |-> <<>>]
    /\ stencils = [t \in Types |-> IF t = "tblink" THEN NoType ELSE NilStencil]
    /\ now = 0
    /\ rng = Seed(1)
    /\ EventRecipients = <<>>
    /\ chans = [c \in ChanIds |-> <<>>]
    /\ call = [p \in Procs |-> Idle]
    /\ OnlyFunctional = FALSE
    /\ eval = [e \in Evaluators |-> Idle]
    /\ kraken = KrakenStart
    /\ dist = NoDist
    /\ ret = NoRet

\* reloadBridgeDescriptors from the assembled bridges on.
Reload(bs) ==
    /\ \E order \in Orders({b.Fingerprint : b \in bs}) :
          LET ss == SubmitAll(bs, order)
          IN  /\ hashnodes' = AddSubmissions(hashnodes, ss, now)
              /\ ret' = [op |-> "reload", bridges |-> bs, submitted |-> ss]
    /\ UNCHANGED <<cfgVars, now, rng, EventRecipients, chans, call>>

NextIngest == \E bs \in BridgeMaps : Reload(bs)

SpecIngest == InitIngest /\ [][NextIngest]_vars

(***************************************************************************)
(* Specification of a Collection under AddResourceType and additions to    *)
(* the rings of its types.                                                 *)
(***************************************************************************)
\* Collection.AddResourceType(rName, unpartitioned, proportions) on the
\* rings and stencils of the Collection.
AddResourceType(rings, sts, rName, unpartitioned, proportions) ==
    [rings |-> [rings EXCEPT ![rName] = <<>>],
     stencils |-> [sts EXCEPT ![rName] =
                      IF unpartitioned THEN NilStencil
                      ELSE BuildStencil(proportions)]]

CollectionInputs ==
    {NewDummy(1, u, ty, "", 1) : u \in 1..MaxUid, ty \in {"obfs4", "tblink"}}

\* NewCollection(): no type is registered.
InitCollection ==
    /\ hashnodes = [t \in Types |-> <<>>]
    /\ stencils = [t \in Types |-> NoType]
    /\ now = 0
    /\ rng = Seed(1)
    /\ EventRecipients = <<>>
    /\ chans = [c \in ChanIds |-> <<>>]
    /\ call = [p \in Procs |-> Idle]
    /\ OnlyFunctional = FALSE
    /\ eval = [e \in Evaluators |-> Idle]
    /\ kraken = KrakenStart
    /\ dist = NoDist
    /\ ret = NoRet

DoAddResourceType(rName, unpartitioned, proportions) ==
    /\ LET x == AddResourceType(hashnodes, stencils, rName, unpartitioned,
                                proportions)
       IN  /\ hashnodes' = x.rings
           /\ stencils' = x.stencils
    /\ ret' = [op |-> "AddResourceType", type |-> rName,
               rings |-> hashnodes, stencils |-> stencils]
    /\ UNCHANGED <<OnlyFunctional, eval, kraken, dist, now, rng, EventRecipients,
                   chans, call>>

\* c[r.Type()].Add(r) for a registered type.
CollectionAdd(r) ==
    /\ Exists(Type(r))
    /\ hashnodes' = [hashnodes EXCEPT ![Type(r)] = Add(@, r, now).h]
    /\ ret' = [op |-> "Add", r |-> r,
               err |-> Add(hashnodes[Type(r)], r, now).err]
    /\ UNCHANGED <<now, backendVars>>

NextCollection ==
    \/ \E t \in {"obfs4", "tblink"}, unpartitioned \in BOOLEAN, p \in Tables :
          DoAddResourceType(t, unpartitioned, p)
    \/ \E r \in CollectionInputs : CollectionAdd(r)

SpecCollection == InitCollection /\ [][NextCollection]_vars

(***************************************************************************)
(* Specification of BuildStencil: the resource types of the configuration  *)
(* are registered with the proportions tables of the configuration file.   *)
(***************************************************************************)
MaxWeight == 2

\* The tables map[string]int over three distributor names.
WeightTables ==
    UNION {[names -> 0..MaxWeight] : names \in SUBSET {"email", "https", "moat"}}

\* AddResourceType(rName, false, proportions), and GetUpperEnd of the
\* stencil that it built.
Register(rName, proportions) ==
    /\ LET x == AddResourceType(hashnodes, stencils, rName, FALSE, proportions)
       IN  /\ hashnodes' = x.rings
           /\ stencils' = x.stencils
           /\ ret' = [op |-> "BuildStencil", type |-> rName,
                      proportions |-> proportions,
                      upper |-> GetUpperEnd(x.stencils[rName])]
    /\ UNCHANGED <<OnlyFunctional, eval, kraken, dist, now, rng, EventRecipients,
                   chans, call>>

NextBuild ==
    \E t \in {"obfs4", "tblink"}, p \in WeightTables : Register(t, p)

SpecBuild == InitCollection /\ [][NextBuild]_vars

(***************************************************************************)
(* Specification of the lookups of a Hashring: the ring is built by Add    *)
(* and Remove and queried by Get and GetMany.                              *)
(***************************************************************************)
LookupInputs == {NewDummy(1, u, RingType, "", 1) : u \in 1..MaxUid}
Keys == 0..(MaxUid + 1)

HGet(k) ==
    LET x == Get(hashnodes[RingType], k)
    IN  /\ ret' = [op |-> "Get", k |-> k, res |-> x.res, err |-> x.err,
                   pre |-> hashnodes[RingType]]
        /\ UNCHANGED <<hashnodes, now, backendVars>>

HGetMany(k, num) ==
    LET x == GetMany(hashnodes[RingType], k, num)
    IN  /\ ret' = [op |-> "GetMany", k |-> k, num |-> num, res |-> x.res,
                   err |-> x.err, pre |-> hashnodes[RingType]]
        /\ UNCHANGED <<hashnodes, now, backendVars>>

NextLookup ==
    \/ \E r \in LookupInputs : HAdd(r)
    \/ \E r \in LookupInputs : HRemove(r)
    \/ \E k \in Keys : HGet(k)
    \/ \E k \in Keys, num \in 0..(MaxUid + 1) : HGetMany(k, num)

SpecLookup == InitRing /\ [][NextLookup]_vars

(***************************************************************************)
(* Specification of queries: Collection.Get and BackendResources.Get for   *)
(* a registered and for an unregistered type, one call at a time.          *)
(***************************************************************************)
\* A proportions table with a single distributor.
OneTable == [n \in {"https"} |-> 1]

InitQuery ==
    /\ \E dys \in 0..MaxUid :
          hashnodes = [t \in Types |->
                          IF t = SliceType THEN Loaded(MaxUid, dys) ELSE <<>>]
    /\ \E s \in {NilStencil}
                  \cup {BuildStencil(p) : p \in Tables \cup {OneTable}} :
          stencils = [t \in Types |-> IF t = SliceType THEN s ELSE NoType]
    /\ now = 0
    /\ rng = Seed(1)
    /\ EventRecipients = <<>>
    /\ chans = [c \in ChanIds |-> <<>>]
    /\ call = [p \in Procs |-> Idle]
    /\ OnlyFunctional \in BOOLEAN
    /\ eval = [e \in Evaluators |-> Idle]
    /\ kraken = KrakenStart
    /\ dist = NoDist
    /\ ret = NoRet

\* Collection.Get(distName, rType) and then BackendResources.Get(distName,
\* rType).
Query(distName, rType) ==
    LET c == CollectionGet(Exists(rType), hashnodes[rType], stencils[rType],
                           distName, rng, now)
        b == BackendGet(Exists(rType), OnlyFunctional, hashnodes[rType],
                        stencils[rType], distName, c.rng, now)
    IN  /\ rng' = b.rng
        /\ ret' = [op |-> "Query", dist |-> distName, type |-> rType,
                   collection |-> c.res, backend |-> b.res]
        /\ UNCHANGED <<hashnodes, cfgVars, now, EventRecipients, chans, call>>

NextQuery ==
    \E d \in {"https", "moat"}, t \in {SliceType, "vanilla"} : Query(d, t)

SpecQuery == InitQuery /\ [][NextQuery]_vars

(***************************************************************************)
(* Properties of the Hashring.                                             *)
(***************************************************************************)
ring == hashnodes[RingType]

IsSorted(h) == \A i \in 1..(Len(h) - 1) : h[i].hashkey < h[i + 1].hashkey

Expired(n, t) == t - n.lastUpdate > Expiry(n.elem)

\* The elements of a sequence, and a subsequence by a test on the nodes.
Range(s) == {s[i] : i \in 1..Len(s)}

RECURSIVE Unexpired(_, _)
Unexpired(h, t) ==
    IF h = <<>> THEN <<>>
    ELSE LET rest == Unexpired(SubSeq(h, 1, Len(h) - 1), t)
         IN  IF Expired(h[Len(h)], t) THEN rest ELSE Append(rest, h[Len(h)])

\* C1: after any sequence of Add, AddOrUpdate, Remove and Prune on a ring
\* that starts empty, the nodes are sorted strictly ascending by Uid, every
\* node is stored under the Uid of its resource, and so no two nodes share a
\* Uid.
C1_Sorted ==
    /\ IsSorted(ring)
    /\ \A i \in 1..Len(ring) : ring[i].hashkey = Uid(ring[i].elem)
    /\ \A i, j \in 1..Len(ring) : i # j => ring[i].hashkey # ring[j].hashkey

\* A full ring whose smallest Uid was inserted last.
C1_Witness ==
    /\ ret.op = "AddOrUpdate" /\ ret.event = ResourceIsNew
    /\ Uid(ret.r) = 1
    /\ Len(ring) = MaxUid

\* C2: Prune removes every node with now - lastUpdate > Expiry() and no
\* other node, and returns exactly the removed resources, each once; every
\* surviving node satisfies now - lastUpdate <= Expiry().
C2_PruneExact ==
    ret.op = "Prune" =>
        /\ \A i \in 1..Len(ring) : ~Expired(ring[i], now)
        /\ ring = Unexpired(ret.pre, now)
        /\ Range(ret.pruned) =
               {n.elem : n \in {m \in Range(ret.pre) : Expired(m, now)}}
        /\ Len(ret.pruned) = Len(ret.pre) - Len(ring)

\* C4: AddOrUpdate(r) returns New and inserts r when Uid(r) is absent,
\* returns Unchanged and keeps the stored value when the Uid is present with
\* the same Oid, returns Changed and stores r when the Uid is present with
\* another Oid; in the last two cases the number of nodes does not change.
StoredAt(h, k) == {n.elem : n \in {m \in Range(h) : m.hashkey = k}}

C4_Step ==
    ret'.op = "AddOrUpdate" =>
        LET r == ret'.r
            old == StoredAt(hashnodes[RingType], Uid(r))
            new == StoredAt(hashnodes'[RingType], Uid(r))
            n == Len(hashnodes[RingType])
            n2 == Len(hashnodes'[RingType])
        IN  /\ old = {} =>
                ret'.event = ResourceIsNew /\ new = {r} /\ n2 = n + 1
            /\ (\E o \in old : Oid(o) = Oid(r)) =>
                ret'.event = ResourceUnchanged /\ new = old /\ n2 = n
            /\ (\E o \in old : Oid(o) # Oid(r)) =>
                ret'.event = ResourceChanged /\ new = {r} /\ n2 = n
            /\ \A k \in 1..MaxUid : k # Uid(r) =>
                StoredAt(hashnodes'[RingType], k)
                    = StoredAt(hashnodes[RingType], k)

C4_AddOrUpdate == [][C4_Step]_vars

\* An AddOrUpdate that found the Uid with the same Oid and kept a stored
\* value that is not the argument.
C4_Witness ==
    /\ ret.op = "AddOrUpdate" /\ ret.event = ResourceUnchanged
    /\ \E o \in StoredAt(ring, Uid(ret.r)) : o # ret.r /\ Oid(o) = Oid(ret.r)

(***************************************************************************)
(* Properties of BackendResources.                                         *)
(***************************************************************************)
\* The subscribers eligible for r, those that requested its type and own
\* it, and their channels.
Eligible(r) ==
    {d \in DOMAIN EventRecipients :
        /\ HasResourceType(EventRecipients[d].Request, Type(r))
        /\ DoesDistOwnResource(stencils[Type(r)], r, d, rng).b}

EligibleChans(r) ==
    UNION {Range(EventRecipients[d].EventChans) : d \in Eligible(r)}

\* The entries of a send log for channel ch and diff d.
Posts(log, ch, d) == {i \in 1..Len(log) : log[i].c = ch /\ log[i].diff = d}

\* The resources of the nodes that are in ring h and not in ring g.
RemovedFrom(h, g) ==
    {n.elem : n \in {m \in Range(h) : StoredAt(g, m.hashkey) = {}}}

\* C3: BackendResources.Prune posts exactly one Gone diff per pruned
\* resource to every channel of every eligible subscriber, and no Gone diff
\* for a resource that was not removed from its ring.
C3_PruneGone ==
    ret.op = "BPrune" =>
        LET removed == UNION {RemovedFrom(ret.pre[t], hashnodes[t]) :
                                 t \in Types}
        IN  /\ \A r \in removed : \A ch \in EligibleChans(r) :
                   Cardinality(Posts(ret.sent, ch,
                                     NewDiff(r, ResourceIsGone))) = 1
            /\ \A i \in 1..Len(ret.sent) :
                   \E r \in removed :
                      /\ ret.sent[i].diff = NewDiff(r, ResourceIsGone)
                      /\ ret.sent[i].c \in EligibleChans(r)

\* C5: an Add that changes a ring posts exactly one diff to each eligible
\* subscriber channel, a New diff for an insertion and a Changed diff for
\* an Oid change, and nothing else; an Add whose result is Unchanged posts
\* nothing; no channel holds two New diffs for one resource.
C5_AddPosts ==
    /\ ret.op = "BAdd" =>
          IF ret.arg.event = ResourceUnchanged
          THEN ret.sent = <<>>
          ELSE /\ ret.arg.event \in {ResourceIsNew, ResourceChanged}
               /\ \A ch \in EligibleChans(ret.arg.r) :
                      Cardinality(Posts(ret.sent, ch,
                                        NewDiff(ret.arg.r, ret.arg.event))) = 1
               /\ Len(ret.sent) = Cardinality(EligibleChans(ret.arg.r))
    /\ \A ch \in ChanIds : \A i, j \in 1..Len(chans[ch]) :
          (/\ i < j
           /\ chans[ch][i].New # <<>>
           /\ chans[ch][j].New # <<>>)
              => \/ Uid(chans[ch][i].New[1]) # Uid(chans[ch][j].New[1])
                 \/ Type(chans[ch][i].New[1]) # Type(chans[ch][j].New[1])

\* Add(r1) then Add(r2) with the Uid of r1 and another Oid has returned and
\* a channel holds the New diff followed by the Changed diff.
C5_Witness ==
    /\ ret.op = "BAdd" /\ ret.arg.event = ResourceChanged
    /\ \E ch \in ChanIds :
          /\ Len(chans[ch]) = 2
          /\ chans[ch][1].New # <<>>
          /\ chans[ch][2] = NewDiff(ret.arg.r, ResourceChanged)
          /\ Uid(chans[ch][1].New[1]) = Uid(ret.arg.r)
          /\ Oid(chans[ch][1].New[1]) # Oid(ret.arg.r)

\* C9: propagateUpdate posts the diff for r only to channels of subscribers
\* that requested Type(r) and own r, and when it returns it has posted the
\* diff once to every channel of every such subscriber.
C9_Propagate ==
    \A p \in Procs :
        (call[p].pc # "idle" /\ call[p].cur # NoCur) =>
            LET c == call[p]
                E == EligibleChans(c.cur.r)
                k == Len(c.sent) - Len(c.posted)
            IN  /\ Range(c.posted) \cup Range(c.sends) \subseteq E
                /\ \A i, j \in 1..Len(c.posted) :
                      i # j => c.posted[i] # c.posted[j]
                /\ \A i \in 1..Len(c.posted) :
                      c.sent[k + i] = [c |-> c.posted[i],
                                       diff |-> NewDiff(c.cur.r, c.cur.event)]
                /\ c.pc = "run" => Range(c.posted) = E

\* propagateUpdate has returned after posting to both channels of a
\* subscriber, while another subscriber asked for the type but does not own
\* the resource and a third condition, the type, excluded nobody.
C9_Witness ==
    \E p \in Procs :
        /\ call[p].pc = "run" /\ call[p].cur # NoCur
        /\ Len(call[p].posted) = 2
        /\ \E d \in DOMAIN EventRecipients :
              /\ HasResourceType(EventRecipients[d].Request,
                                 Type(call[p].cur.r))
              /\ d \notin Eligible(call[p].cur.r)

\* C10: BackendResources.Add always returns, even if a registered
\* subscriber never receives from its channel.
C10_AddReturns ==
    \A p \in Procs : (call[p].pc # "idle") ~> (call[p].pc = "idle")


(***************************************************************************)
(* Properties of the stencil.                                              *)
(***************************************************************************)
\* The table of the stencil gives a positive share to some name.
Weighted(s) ==
    ~IsNil(s) /\ \E k \in 1..Len(s.intervals) :
                     s.intervals[k].Begin <= s.intervals[k].End

\* C6: for a stencil built from a proportions table (here: one that gives
\* some name a positive share), the ownership tests of one resource against
\* the distributor names find exactly one owner: the pin if the resource is
\* pinned (so no owner among other names), otherwise exactly one of the
\* names of the table.
C6_OneOwner ==
    (ret.op = "propagate" /\ Weighted(stencil)) =>
        IF Distributor(ret.r) # ""
        THEN ret.owners = {Distributor(ret.r)} \cap DOMAIN EventRecipients
        ELSE Cardinality(ret.owners) = 1

\* C7: every ownership test returns what DoesDistOwnResource returns for
\* the same resource, name and table when it runs alone, whatever the other
\* goroutines do meanwhile.
C7_Deterministic ==
    ret.op = "filter" =>
        ret.b = DoesDistOwnResource(stencil, ret.r, ret.d, rng).b

Stored(u) == CHOOSE r \in StoredAt(hashnodes[SliceType], u) : TRUE
Returned(u) == \E i \in 1..Len(ret.res) : Uid(ret.res[i]) = u

\* The resource with Uid u is in the slice that GetForDist gave to Get.
InSlice(u) == \E i \in 1..Len(ret.slice) : Uid(ret.slice[i]) = u

\* BackendResources.Get does not drop r for its test result.
Kept(r) == OnlyFunctional => TestResult(r).State = "functional"

\* Bucket n lies in the interval that stencil s gives to distName.
InIntervalOf(s, distName, n) ==
    \E k \in 1..Len(s.intervals) :
        /\ s.intervals[k].Name = distName
        /\ s.intervals[k].Begin <= n
        /\ n <= s.intervals[k].End

\* The requests of the bridges become pins as getBridgeDistributionRequest
\* says, and a resource that stays unpinned is assigned by the stencil
\* alone: the filter function of a distributor accepts it exactly when the
\* bucket it has drawn lies in the distributor's interval, while a pinned
\* resource is decided by its pin without a draw.
ByStencilAlone ==
    /\ \A u \in 1..MaxUid :
          RequestOf(u) = "any" => Distributor(Stored(u)) = ""
    /\ (ret.op = "filter" /\ ~IsNil(stencil) /\ GetUpperEnd(stencil).ok) =>
          IF Distributor(ret.r) = ""
          THEN /\ ret.bucket \in 0..GetUpperEnd(stencil).max
               /\ ret.b <=> InIntervalOf(stencil, ret.d, ret.bucket)
          ELSE /\ ret.bucket = -1
               /\ ret.b <=> ret.d = Distributor(ret.r)

\* C8 as stated: Get and GetForDist for distributor X return a pinned
\* resource of the ring if and only if X is its pin; a bridge that requested
\* "none" is returned to no distributor of the table, one that requested
\* "any" is unpinned and assigned by the stencil alone.
C8_Pinned ==
    /\ ret.op = "Get" =>
          \A u \in 1..MaxUid :
              /\ Distributor(Stored(u)) # "" =>
                    /\ Returned(u) <=> ret.dist = Distributor(Stored(u))
                    /\ InSlice(u) <=> ret.dist = Distributor(Stored(u))
              /\ RequestOf(u) = "none" => ~Returned(u) /\ ~InSlice(u)
    /\ ByStencilAlone

\* C8 amended. For a type partitioned by a stencil with at least one
\* interval, GetForDist for X returns a pinned resource if and only if X is
\* its pin, and Get returns it if and only if X is its pin and Get does not
\* drop it for its test result; a bridge that requested "none" is returned
\* to no distributor, one that requested "any" is unpinned and assigned by
\* the stencil alone. For an unpartitioned type GetForDist returns every
\* resource to everybody and Get every resource it does not drop; with an
\* empty table both return nothing.
C8_PinnedPartitioned ==
    /\ (ret.op = "Get" /\ ~IsNil(stencil) /\ GetUpperEnd(stencil).ok) =>
          \A u \in 1..MaxUid :
              /\ Distributor(Stored(u)) # "" =>
                    /\ InSlice(u) <=> ret.dist = Distributor(Stored(u))
                    /\ Returned(u) <=> (/\ ret.dist = Distributor(Stored(u))
                                         /\ Kept(Stored(u)))
              /\ RequestOf(u) = "none" => ~Returned(u) /\ ~InSlice(u)
    /\ (ret.op = "Get" /\ IsNil(stencil)) =>
          \A u \in 1..MaxUid :
              /\ InSlice(u)
              /\ Returned(u) <=> Kept(Stored(u))
    /\ (ret.op = "Get" /\ ~IsNil(stencil) /\ ~GetUpperEnd(stencil).ok) =>
          ret.slice = <<>> /\ ret.res = <<>>
    /\ ByStencilAlone

\* Under a weighted stencil with OnlyFunctional set, Get("moat") has
\* received from GetForDist the bridge pinned to moat and dropped it for
\* its test result, has not got the bridge that requested "none", and has
\* returned the bridge that requested "any", which is unpinned and was
\* assigned to moat by its bucket.
C8_Witness ==
    /\ ret.op = "Get" /\ ret.dist = "moat"
    /\ Weighted(stencil)
    /\ OnlyFunctional
    /\ Distributor(Stored(2)) = "moat" /\ InSlice(2) /\ ~Returned(2)
    /\ Distributor(Stored(3)) = "none" /\ ~InSlice(3) /\ ~Returned(3)
    /\ RequestOf(1) = "any" /\ Distributor(Stored(1)) = ""
    /\ InSlice(1) /\ Returned(1)


(***************************************************************************)
(* Properties of concurrent callers.                                       *)
(***************************************************************************)
\* C11: on each subscriber channel the diffs about one Uid arrive in the
\* order of the ring mutations: a Changed diff for a resource is preceded on
\* the same channel by a New diff for its Uid.
C11_ChangedAfterNew ==
    \A ch \in ChanIds : \A j \in 1..Len(chans[ch]) :
        chans[ch][j].Changed # <<>> =>
            \E i \in 1..(j - 1) :
                /\ chans[ch][i].New # <<>>
                /\ Uid(chans[ch][i].New[1]) = Uid(chans[ch][j].Changed[1])


(***************************************************************************)
(* Properties of the registry.                                             *)
(***************************************************************************)
\* The lists that are cs without one occurrence of channel c.
OneLess(cs, c) ==
    {SubSeq(cs, 1, i - 1) \o SubSeq(cs, i + 1, Len(cs)) :
        i \in {j \in 1..Len(cs) : cs[j] = c}}

\* C12: UnregisterChan(distName, channel) removes at most the given channel
\* from the channel list of distName and leaves every other registered
\* channel of distName and of every other distributor registered.
C12_UnregisterFrame ==
    ret.op = "UnregisterChan" =>
        /\ DOMAIN EventRecipients = DOMAIN ret.pre
        /\ \A d \in DOMAIN ret.pre :
              IF d # ret.dist THEN EventRecipients[d] = ret.pre[d]
              ELSE /\ EventRecipients[d].Request = ret.pre[d].Request
                   /\ EventRecipients[d].EventChans \in
                          {ret.pre[d].EventChans}
                             \cup OneLess(ret.pre[d].EventChans, ret.ch)


(***************************************************************************)
(* Properties of the ingestion loop.                                       *)
(***************************************************************************)
\* C13: a cycle whose network status has less than half of its bridges
\* Running leaves every ring as it was when the cycle began and sets the
\* gauge IgnoringBridgeDescriptors; a cycle with a healthy network status
\* is not ignored, resets the gauge and submits every Running bridge.
C13_IgnoredCycle ==
    ret.op = "cycle" =>
        IF ret.ignored
        THEN /\ hashnodes = ret.pre
             /\ kraken.IgnoringBridgeDescriptors = 1
        ELSE /\ kraken.IgnoringBridgeDescriptors = 0
             /\ loadBridgesFromNetworkstatus(ret.feed).err = FALSE

\* The resources that a cycle pruned.
CyclePruned ==
    {r \in Range([i \in 1..Len(ret.before[SliceType]) |->
                     ret.before[SliceType][i].elem]) :
        \A i \in 1..Len(hashnodes[SliceType]) :
            Uid(hashnodes[SliceType][i].elem) # Uid(r)}

\* C14: when a cycle of the ingestion loop has pruned a resource, it has
\* posted a Gone diff for it to every channel of every eligible subscriber.
C14_CycleGone ==
    ret.op = "cycle" =>
        \A r \in CyclePruned : \A ch \in EligibleChans(r) :
            Cardinality(Posts(ret.sent, ch, NewDiff(r, ResourceIsGone))) = 1


(***************************************************************************)
(* Properties of Get.                                                      *)
(***************************************************************************)
\* The subsequence of rs whose elements are in the set keep.
RECURSIVE Restrict(_, _)
Restrict(rs, keep) ==
    IF rs = <<>> THEN <<>>
    ELSE IF Head(rs) \in keep THEN <<Head(rs)>> \o Restrict(Tail(rs), keep)
    ELSE Restrict(Tail(rs), keep)

\* C15: BackendResources.Get returns exactly the resources of the
\* distributor's slice whose test state is functional when OnlyFunctional
\* is true, and the whole slice, as Collection.Get does, when it is false.
C15_OnlyFunctional ==
    ret.op = "Get" =>
        IF OnlyFunctional
        THEN ret.res = Restrict(ret.slice,
                                {r \in Range(ret.slice) :
                                    r.state = "functional"})
        ELSE ret.res = ret.slice

\* Get with OnlyFunctional set has dropped a dysfunctional resource of the
\* slice and returned a functional one.
C15_Witness ==
    /\ ret.op = "Get" /\ OnlyFunctional
    /\ \E r \in Range(ret.slice) : r.state = "dysfunctional"
    /\ ret.res # <<>>
    /\ Len(ret.res) < Len(ret.slice)


(***************************************************************************)
(* Properties of the Collection.                                           *)
(***************************************************************************)
\* C16: AddResourceType for a type that is already registered changes
\* neither the stencil of the type nor the resources stored in its ring.
C16_ReAddType ==
    (ret.op = "AddResourceType" /\ ret.stencils[ret.type] # NoType) =>
        /\ stencils[ret.type] = ret.stencils[ret.type]
        /\ hashnodes[ret.type] = ret.rings[ret.type]


(***************************************************************************)
(* Properties of Add and of the lookups.                                   *)
(***************************************************************************)
\* C17: Add(r) on a ring that holds a node for Uid(r), as the second of two
\* Add(r) in a row does, returns the already-present error, keeps the stored
\* value and the size of the ring, sets the lastUpdate of that node to the
\* current time and touches no other node; exactly one node has Uid(r).
C17_Step ==
    (ret'.op = "Add" /\ StoredAt(ring, Uid(ret'.r)) # {}) =>
        /\ ret'.err = TRUE
        /\ Len(hashnodes'[RingType]) = Len(ring)
        /\ \A i \in 1..Len(ring) :
              IF ring[i].hashkey = Uid(ret'.r)
              THEN hashnodes'[RingType][i] = [ring[i] EXCEPT !.lastUpdate = now]
              ELSE hashnodes'[RingType][i] = ring[i]
        /\ Cardinality({i \in 1..Len(hashnodes'[RingType]) :
                           hashnodes'[RingType][i].hashkey = Uid(ret'.r)}) = 1

C17_AddTwice == [][C17_Step]_vars

\* Add(r) has returned the already-present error for a node that stores
\* another value with the Uid of r, and has refreshed its lastUpdate.
C17_Witness ==
    /\ ret.op = "Add" /\ ret.err = TRUE /\ now > 0
    /\ \E i \in 1..Len(ring) :
          /\ ring[i].hashkey = Uid(ret.r)
          /\ ring[i].elem # ret.r
          /\ ring[i].lastUpdate = now


\* The position (from 1) in ring h that a lookup of key k selects: that of
\* the smallest Uid >= k, or of the smallest Uid when k is above them all.
Selected(h, k) ==
    LET above == {i \in 1..Len(h) : h[i].hashkey >= k}
        from == IF above = {} THEN 1..Len(h) ELSE above
    IN  CHOOSE i \in from : \A j \in from : h[i].hashkey <= h[j].hashkey

\* C18: Get(k) on a non-empty ring returns the resource of the node with
\* the smallest Uid >= k, or of the node with the smallest Uid when k is
\* greater than every Uid; on an empty ring it returns an error and no
\* resource.
C18_Get ==
    ret.op = "Get" =>
        /\ hashnodes[RingType] = ret.pre
        /\ IF ring = <<>>
           THEN ret.err /\ ret.res = NoResource
           ELSE ~ret.err /\ ret.res = ring[Selected(ring, ret.k)].elem

\* Get(k) has wrapped around: k is above every Uid of a ring of several
\* nodes.
C18_Witness ==
    /\ ret.op = "Get" /\ Len(ring) > 1
    /\ \A i \in 1..Len(ring) : ring[i].hashkey < ret.k
    /\ ret.res = ring[1].elem

\* C19: GetMany(k, n) with 1 <= n <= ring size returns exactly n pairwise
\* distinct resources, those at the circular positions i, ..., i + n - 1
\* from the position i that Get(k) selects; with n > ring size it returns
\* an error and no resources; the ring is not modified.
C19_GetMany ==
    ret.op = "GetMany" =>
        /\ hashnodes[RingType] = ret.pre
        /\ ret.num > Len(ring) => (ret.err /\ ret.res = <<>>)
        /\ (1 <= ret.num /\ ret.num <= Len(ring)) =>
              /\ ~ret.err
              /\ Len(ret.res) = ret.num
              /\ \A a, b \in 1..Len(ret.res) : a # b => ret.res[a] # ret.res[b]
              /\ \A j \in 1..ret.num :
                    ret.res[j] =
                       ring[((Selected(ring, ret.k) - 1 + j - 1) % Len(ring))
                            + 1].elem

\* GetMany has returned resources from the end of the ring followed by
\* resources from its start.
C19_Witness ==
    /\ ret.op = "GetMany" /\ ~ret.err /\ ret.num = Len(ring) /\ ret.num > 1
    /\ ret.res[1] = ring[Len(ring)].elem
    /\ ret.res[2] = ring[1].elem


(***************************************************************************)
(* Properties of queries.                                                  *)
(***************************************************************************)
\* The unpinned resources stored in the ring of type t.
Unpinned(t) ==
    {hashnodes[t][i].elem : i \in {j \in 1..Len(hashnodes[t]) :
                                      Distributor(hashnodes[t][j].elem) = ""}}

\* C20 as stated: Collection.Get and BackendResources.Get return an empty
\* list for an unregistered type and for a stencil without intervals, and
\* with the table {d: 1} they return every unpinned resource to d.
C20_Get ==
    ret.op = "Query" =>
        /\ ~Exists(ret.type) => (ret.collection = <<>> /\ ret.backend = <<>>)
        /\ (Exists(ret.type) /\ stencils[ret.type] = EmptyStencil) =>
              (ret.collection = <<>> /\ ret.backend = <<>>)
        /\ (Exists(ret.type) /\ stencils[ret.type] = BuildStencil(OneTable)
             /\ ret.dist \in DOMAIN OneTable) =>
              /\ Unpinned(ret.type) \subseteq Range(ret.collection)
              /\ Unpinned(ret.type) \subseteq Range(ret.backend)

\* C20 amended: the same, but from BackendResources.Get distributor d gets
\* the unpinned resources that Get does not drop for their test result.
C20_GetFunctional ==
    ret.op = "Query" =>
        /\ ~Exists(ret.type) => (ret.collection = <<>> /\ ret.backend = <<>>)
        /\ (Exists(ret.type) /\ stencils[ret.type] = EmptyStencil) =>
              (ret.collection = <<>> /\ ret.backend = <<>>)
        /\ (Exists(ret.type) /\ stencils[ret.type] = BuildStencil(OneTable)
             /\ ret.dist \in DOMAIN OneTable) =>
              /\ Unpinned(ret.type) \subseteq Range(ret.collection)
              /\ {r \in Unpinned(ret.type) :
                     OnlyFunctional => r.state = "functional"}
                    \subseteq Range(ret.backend)

\* With the table {d: 1} and OnlyFunctional set, a query of d has returned
\* the unpinned resources of the ring from both Get functions.
C20_Witness ==
    /\ ret.op = "Query" /\ ret.type = SliceType /\ ret.dist \in DOMAIN OneTable
    /\ stencils[SliceType] = BuildStencil(OneTable)
    /\ OnlyFunctional
    /\ Unpinned(SliceType) # {}
    /\ Unpinned(SliceType) \subseteq Range(ret.collection)
    /\ Unpinned(SliceType) \subseteq Range(ret.backend)

(***************************************************************************)
(* Properties of subscribers.                                              *)
(***************************************************************************)
\* Caller p is inside propagateUpdate at a send to channel ch that has no
\* room.
Blocked(p, ch) ==
    /\ call[p].pc = "send"
    /\ call[p].sends[1] = ch
    /\ Len(chans[ch]) = ChanCap

\* Channel ch is in the registry of event recipients.
Registered(ch) ==
    \E d \in DOMAIN EventRecipients :
        ch \in Range(EventRecipients[d].EventChans)

\* C21: a subscriber whose channel keeps a send blocked is evicted: the
\* send does not stay blocked with the channel still in the registry.
C21_Evicted ==
    \A p \in Procs : \A ch \in ChanIds :
        Blocked(p, ch) ~> (~Blocked(p, ch) \/ ~Registered(ch))

\* C22: after the shutdown channel has fired, the cycle in progress
\* completes, so that InitKraken reaches its select and can return.
C22_Returns ==
    (kraken.shutdown /\ kraken.pc \notin {"init", "wait", "returned"})
        ~> (kraken.pc \in {"wait", "returned"})

(***************************************************************************)
(* Properties of the ingestion loop.                                       *)
(***************************************************************************)
\* The number of functional resources of ring h.
NumFunctional(h) ==
    Cardinality({i \in 1..Len(h) :
                    TestResult(h[i].elem).State = "functional"})

\* The sum over the types ts of (functional resources / ring size), as the
\* fraction num/den without rounding.
RECURSIVE SumOfFractions(_)
SumOfFractions(ts) ==
    IF ts = <<>> THEN [num |-> 0, den |-> 1]
    ELSE LET rest == SumOfFractions(Tail(ts))
             h == hashnodes[Head(ts)]
         IN  [num |-> rest.num * Len(h) + NumFunctional(h) * rest.den,
              den |-> rest.den * Len(h)]

\* C23: after calcTestedResources, OnlyFunctional is true exactly if the
\* mean over the registered types of (functional resources / ring size) is
\* at least 0.5; with no type or an empty ring there is no mean and
\* OnlyFunctional is false.
C23_Mean ==
    ret.op = "calcTestedResources" =>
        LET sum == SumOfFractions(ret.order)
        IN  OnlyFunctional = (/\ ret.order # <<>>
                              /\ sum.den # 0
                              /\ 2 * sum.num >= Len(ret.order) * sum.den)

(***************************************************************************)
(* Properties of the per-IP sub-selection.                                 *)
(***************************************************************************)
\* The rotation period of the hour t.
Period(t) == t \div RotationPeriodHours

\* C24: the answers to two requests of one prefix on the same ring are
\* equal when the requests fall into the same rotation period, and disjoint
\* when they fall into different periods less than numPeriods apart.
C24_Rotation ==
    \A e1, e2 \in Evaluators :
        (/\ eval[e1].pc = "idle" /\ "res" \in DOMAIN eval[e1]
         /\ eval[e2].pc = "idle" /\ "res" \in DOMAIN eval[e2]) =>
            /\ Period(eval[e1].hour) = Period(eval[e2].hour) =>
                  eval[e1].res = eval[e2].res
            /\ (/\ Period(eval[e1].hour) # Period(eval[e2].hour)
                /\ Period(eval[e1].hour) - Period(eval[e2].hour) < NumPeriods
                /\ Period(eval[e2].hour) - Period(eval[e1].hour) < NumPeriods)
                  => eval[e1].res \cap eval[e2].res = {}

(***************************************************************************)
(* Properties of the Salmon distributor.                                   *)
(***************************************************************************)
\* C25: a token is redeemed successfully at most once per issue and only
\* while it is cached and not expired; RedeemInvite of a token that is not
\* cached or has expired returns an error and leaves the users as they
\* were; after RedeemInvite the token is not in the cache.
C25_Invite ==
    /\ \A k \in Tokens : dist.redeemed[k] <= 1
    /\ ret.op = "RedeemInvite" =>
          LET cached == ret.token \in DOMAIN ret.pre.TokenCache
              fresh == now - ret.pre.TokenCache[ret.token].IssueTime
                          <= InvitationTokenExpiry
          IN  /\ ret.token \notin DOMAIN dist.TokenCache
              /\ ~ret.err => (cached /\ fresh)
              /\ (~cached \/ ~fresh) =>
                    (ret.err /\ dist.Users = ret.pre.Users)

\* An expired token was in the cache and RedeemInvite has refused it and
\* taken it out, after another token was redeemed.
C25_Witness ==
    /\ ret.op = "RedeemInvite" /\ ret.err
    /\ ret.token \in DOMAIN ret.pre.TokenCache
    /\ now - ret.pre.TokenCache[ret.token].IssueTime > InvitationTokenExpiry
    /\ \E k \in Tokens : dist.redeemed[k] = 1

(***************************************************************************)
(* Properties of the Gettor distributor.                                   *)
(***************************************************************************)
\* Version v is the highest of the set vs.
Highest(v, vs) == v \in vs /\ \A w \in vs : Compare(v, w) >= 0

\* C26: after applyDiff, every stored link of a platform has the version
\* d.version[platform], and that is the highest version that the New diffs
\* have held for the platform so far.
C26_LatestVersion ==
    ret.op = "applyDiff" =>
        \A p \in Platforms :
            /\ \A lo \in Locales :
                  \A i \in 1..Len(LinksOf(dist, p, lo)) :
                      /\ p \in DOMAIN dist.version
                      /\ LinksOf(dist, p, lo)[i].Version = dist.version[p]
            /\ dist.seen[p] # {} =>
                  /\ p \in DOMAIN dist.version
                  /\ Highest(dist.version[p], dist.seen[p])

\* A diff with a newer version has replaced the stored links of a platform,
\* and it held a link of an older version too.
C26_Witness ==
    /\ ret.op = "applyDiff" /\ ret.type = "tblink"
    /\ ret.older /\ ret.superseded

(***************************************************************************)
(* Properties of the replicas.                                             *)
(***************************************************************************)
\* The ingestion goroutine is in no call and every diff has been received.
Quiescent ==
    /\ \A p \in Procs : call[p].pc = "idle"
    /\ \A c \in ChanIds : chans[c] = <<>>

\* The resources in the backend rings that distributor d requested and
\* owns.
OwnedBy(d) ==
    UNION {{r \in Range(GetAll(hashnodes[t])) :
               DoesDistOwnResource(stencils[t], r, d, rng).b} :
             t \in {ty \in EventRecipients[d].Request.ResourceTypes :
                       Exists(ty)}}

\* C27: once every posted diff is applied, the ring of a subscriber holds
\* exactly the resources of the backend rings that it requested and owns.
C27_Replica ==
    (dist # NoDist /\ "replica" \in DOMAIN dist /\ Quiescent) =>
        \A d \in DOMAIN EventRecipients :
            \A i \in 1..Len(EventRecipients[d].EventChans) :
                Range(GetAll(dist.replica[EventRecipients[d].EventChans[i]]))
                   = OwnedBy(d)

\* The Uids that the ring h holds.
UidsOf(h) == {Uid(r) : r \in Range(GetAll(h))}

\* C28: once every posted diff is applied, no Uid is held by the rings of
\* two different distributors: the former owner of a replaced resource was
\* sent a Changed or Gone diff for it.
C28_OneHolder ==
    (dist # NoDist /\ "replica" \in DOMAIN dist /\ Quiescent) =>
        \A a, b \in DOMAIN EventRecipients :
            a # b =>
               \A i \in 1..Len(EventRecipients[a].EventChans),
                  j \in 1..Len(EventRecipients[b].EventChans) :
                     UidsOf(dist.replica[EventRecipients[a].EventChans[i]])
                        \cap
                     UidsOf(dist.replica[EventRecipients[b].EventChans[j]])
                        = {}

(***************************************************************************)
(* Properties of the ingestion of blocked bridges.                         *)
(***************************************************************************)
\* C29: when Add has returned for a resource with a blocked-in set, the
\* value stored under its Uid carries that blocked-in set, also when it
\* replaced a value that differed in nothing else; and unless the Uid was
\* new, a Changed diff with it was sent to every channel of the eligible
\* subscribers.
C29_BlockedIn ==
    (ret.op = "BAdd" /\ "blockedIn" \in DOMAIN ret.arg.r) =>
        \A r \in StoredAt(hashnodes[Type(ret.arg.r)], Uid(ret.arg.r)) :
            BlockedIn(r) = BlockedIn(ret.arg.r)

(***************************************************************************)
(* Properties of subscribing.                                              *)
(***************************************************************************)
\* The resources that a diff is about.
DiffResources(d) == Range(d.New) \cup Range(d.Changed) \cup Range(d.Gone)

\* C30: a registered channel holds diffs only for the types of the request
\* it was registered with, and while propagateUpdate sends the diff of a
\* resource, every channel whose request has the type of the resource and
\* whose distributor owns the resource is among the channels it sends to:
\* it has the diff once the loop has passed its distributor, and is among
\* the channels of the send in progress while the loop is at it.
C30_RequestedTypes ==
    ("requests" \in DOMAIN dist) =>
        \A ch \in DOMAIN dist.requests :
            /\ \A i \in 1..Len(chans[ch]) :
                  \A r \in DiffResources(chans[ch][i]) :
                      HasResourceType(dist.requests[ch], Type(r))
            /\ \A p \in Procs :
                  (HoldsRLock(p)
                     /\ HasResourceType(dist.requests[ch], Type(call[p].cur.r))
                     /\ DoesDistOwnResource(stencils[Type(call[p].cur.r)],
                                            call[p].cur.r,
                                            dist.requests[ch].RequestOrigin,
                                            rng).b)
                  => LET d == dist.requests[ch].RequestOrigin
                         c == call[p]
                     IN  IF d \notin Range(c.recips)
                         THEN ch \in Range(c.posted)
                         ELSE (c.pc = "send" /\ d = Head(c.recips))
                                 => ch \in Range(c.sends) \cup Range(c.posted)

(***************************************************************************)
(* Properties of unregistering.                                            *)
(***************************************************************************)
\* C31: in no state does propagateUpdate, holding the read lock of the
\* registry, wait to send on the full channel of a subscriber that has
\* stopped receiving and waits in UnregisterChan for the write lock.
C31_NoDeadlock ==
    ("sub" \in DOMAIN dist) =>
        \A ch \in DOMAIN dist.sub :
            ~ /\ dist.sub[ch] = "waiting"
              /\ \E p \in Procs : HoldsRLock(p) /\ Blocked(p, ch)

(***************************************************************************)
(* Properties of the health checks.                                        *)
(***************************************************************************)
\* The four conditions: ring h has a node with the Uid and the Oid of r
\* whose test state is not untested and whose last test is younger than its
\* expiry at time t.
TestedRecently(h, r, t) ==
    \E old \in StoredAt(h, Uid(r)) :
        /\ Oid(old) = Oid(r)
        /\ TestResult(old).State # "untested"
        /\ t - LastTested(old) < Expiry(old)

\* C32: Add and AddOrUpdate start no Test() when the four conditions hold
\* and exactly one in every other case.
C32_Scheduled ==
    ret.op = "Test" =>
        Len(ret.tests) = IF TestedRecently(ret.pre, ret.r, ret.t) THEN 0 ELSE 1

\* C40: a query returns resources in ascending Uid order, leaves the ring
\* as it was and starts no Test().
C40_ReadOnly ==
    ret.op = "Query" =>
        /\ \A i \in 1..(Len(ret.res) - 1) : Uid(ret.res[i]) < Uid(ret.res[i + 1])
        /\ hashnodes[RingType] = ret.pre
        /\ ret.tests = <<>>

(***************************************************************************)
(* Properties of the locks.                                                *)
(***************************************************************************)
\* The goroutines that hold the lock of the ring, for writing or reading.
RingHolders ==
    dist.ring.readers \cup
       (IF dist.ring.writer = "" THEN {} ELSE {dist.ring.writer})

\* C33: no Test() that Add or AddOrUpdate has started runs while that
\* operation still holds the write lock of the ring.
C33_TestAfterUnlock ==
    ("tests" \in DOMAIN dist) =>
        \A x \in dist.tests :
            (x.fresh /\ dist.ring.writer # "") => x.status # "running"

\* C36: no goroutine holds the lock of the registry and the lock of a ring
\* at the same time.
C36_LockOrder ==
    ("ring" \in DOMAIN dist) =>
        \A p \in Procs : ~(HoldsRLock(p) /\ p \in RingHolders)

\* propagateUpdate holds the read lock of the registry after the ring
\* operation of the same call has changed the ring, while a query holds the
\* lock of the ring.
C36_Witness ==
    /\ "ring" \in DOMAIN dist
    /\ HoldsRLock("kraken")
    /\ hashnodes[RingType] # <<>>
    /\ "other" \in RingHolders

(***************************************************************************)
(* Properties of lastUpdate.                                               *)
(***************************************************************************)
\* The nodes of ring h with hash key k.
NodesAt(h, k) == {n \in Range(h) : n.hashkey = k}

\* C34: in every step the lastUpdate of a node that stays does not
\* decrease; Add and AddOrUpdate set the lastUpdate of the node with their
\* Uid to the current time, also when they return already-present or
\* Unchanged; a Uid leaves the ring only in Remove of that Uid or in Prune,
\* and in Prune only when its node was older than its Expiry().
C34_Step ==
    /\ \A k \in 1..MaxUid :
          \A n \in NodesAt(hashnodes[RingType], k),
             m \in NodesAt(hashnodes'[RingType], k) :
                m.lastUpdate >= n.lastUpdate
    /\ ret'.op \in {"Add", "AddOrUpdate"} =>
          /\ NodesAt(hashnodes'[RingType], Uid(ret'.r)) # {}
          /\ \A m \in NodesAt(hashnodes'[RingType], Uid(ret'.r)) :
                m.lastUpdate = now
    /\ \A k \in 1..MaxUid :
          \A n \in NodesAt(hashnodes[RingType], k) :
              NodesAt(hashnodes'[RingType], k) = {} =>
                 \/ ret'.op = "Remove" /\ Uid(ret'.r) = k
                 \/ ret'.op = "Prune" /\ now - n.lastUpdate > Expiry(n.elem)

C34_LastUpdate == [][C34_Step]_vars

\* An Add that returned already-present has refreshed a node that had been
\* added at an earlier time.
C34_Witness ==
    /\ ret.op = "Add" /\ ret.err /\ now > 0
    /\ \E m \in NodesAt(ring, Uid(ret.r)) : m.lastUpdate = now

(***************************************************************************)
(* Properties of ApplyDiff.                                                *)
(***************************************************************************)
\* The resources of a ResourceMap.
Entries(m) == UNION {Range(m[ty]) : ty \in DOMAIN m}

\* The ring that ApplyDiff has put the resources of type ty into.
RingAfter(ty) == IF ret.on = "Hashring" THEN dist.ring ELSE hashnodes[ty]

\* C35: after ApplyDiff, a New entry whose Uid was present has not replaced
\* the stored value, a Changed entry whose Oid differs from the stored one
\* has, and a Uid that is in New or Changed and in Gone is absent.
C35_ApplyDiff ==
    ret.op = "ApplyDiff" =>
        LET new == Entries(ret.diff.New)
            changed == Entries(ret.diff.Changed)
            gone == Entries(ret.diff.Gone)
            uids(rs) == {Uid(r) : r \in rs}
        IN  /\ \A n \in new :
                  \A v \in StoredAt(ret.pre[Type(n)], Uid(n)) :
                      Uid(n) \notin uids(changed) \cup uids(gone) =>
                          StoredAt(RingAfter(Type(n)), Uid(n)) = {v}
            /\ \A c \in changed :
                  Uid(c) \notin uids(gone) =>
                     /\ \E s \in StoredAt(RingAfter(Type(c)), Uid(c)) :
                           Oid(s) = Oid(c)
                     /\ \A v \in StoredAt(ret.pre[Type(c)], Uid(c)) :
                           Oid(v) # Oid(c) =>
                              StoredAt(RingAfter(Type(c)), Uid(c)) = {c}
            /\ \A r \in (new \cup changed) :
                  Uid(r) \in uids(gone) =>
                      StoredAt(RingAfter(Type(r)), Uid(r)) = {}

\* Collection.ApplyDiff has met a New entry whose Uid was stored with
\* another Oid, and a Changed entry whose Uid is in Gone too.
C35_Witness ==
    /\ ret.op = "ApplyDiff" /\ ret.on = "Collection"
    /\ \E n \in Entries(ret.diff.New) :
          /\ Uid(n) \notin {Uid(r) : r \in Entries(ret.diff.Changed)
                                         \cup Entries(ret.diff.Gone)}
          /\ \E v \in StoredAt(ret.pre[Type(n)], Uid(n)) : Oid(v) # Oid(n)
    /\ \E c \in Entries(ret.diff.Changed) :
          Uid(c) \in {Uid(r) : r \in Entries(ret.diff.Gone)}

(***************************************************************************)
(* Properties of BuildStencil.                                             *)
(***************************************************************************)
\* The sum of the weights of a proportions table.
RECURSIVE SumOfWeights(_)
SumOfWeights(p) ==
    IF DOMAIN p = {} THEN 0
    ELSE LET d == CHOOSE x \in DOMAIN p : TRUE
         IN  p[d] + SumOfWeights([n \in DOMAIN p \ {d} |-> p[n]])

\* The intervals that BuildStencil made of the table ret.proportions: one
\* per name, in ascending name order, contiguous from 0, pairwise disjoint,
\* the interval of d holding proportions[d] integers.
IntervalChain ==
    LET is == stencils[ret.type].intervals
        p == ret.proportions
        total == SumOfWeights(p)
    IN  /\ Len(is) = Cardinality(DOMAIN p)
        /\ {is[k].Name : k \in 1..Len(is)} = DOMAIN p
        /\ \A k, m \in 1..Len(is) :
              k < m => NameIndex(is[k].Name) < NameIndex(is[m].Name)
        /\ Len(is) > 0 => is[1].Begin = 0
        /\ \A k \in 1..(Len(is) - 1) : is[k + 1].Begin = is[k].End + 1
        /\ \A k, m \in 1..Len(is) :
              k # m => \A n \in (-1)..total :
                          ~(Contains(is[k], n) /\ Contains(is[m], n))
        /\ \A k \in 1..Len(is) :
              Cardinality({n \in (-1)..total : Contains(is[k], n)})
                 = p[is[k].Name]

\* C37 as stated: the intervals of BuildStencil(proportions) form the chain
\* of the table, and GetUpperEnd is the sum of all weights minus one.
C37_UpperEnd ==
    ret.op = "BuildStencil" =>
        /\ IntervalChain
        /\ ret.upper = [ok |-> TRUE, max |-> SumOfWeights(ret.proportions) - 1]

\* C37: the intervals of BuildStencil(proportions) form the chain of the
\* table; GetUpperEnd is the sum of all weights minus one when that sum is
\* positive, fails on an empty table and is 0 on a table of zero weights.
C37_Stencil ==
    ret.op = "BuildStencil" =>
        LET p == ret.proportions
        IN  /\ IntervalChain
            /\ SumOfWeights(p) >= 1 =>
                  ret.upper = [ok |-> TRUE, max |-> SumOfWeights(p) - 1]
            /\ DOMAIN p = {} => ~ret.upper.ok
            /\ (DOMAIN p # {} /\ SumOfWeights(p) = 0) =>
                  ret.upper = [ok |-> TRUE, max |-> 0]

\* A table of three names with different positive weights and a zero weight
\* in the middle has been built.
C37_Witness ==
    /\ ret.op = "BuildStencil"
    /\ DOMAIN ret.proportions = {"email", "https", "moat"}
    /\ ret.proportions["email"] = 2
    /\ ret.proportions["https"] = 0
    /\ ret.proportions["moat"] = 1
    /\ ret.upper = [ok |-> TRUE, max |-> 2]

(***************************************************************************)
(* Properties of unpartitioned types.                                      *)
(***************************************************************************)
\* C38: with a nil stencil every ownership test is true, for every
\* distributor name, and GetForDist returns the whole ring to everybody.
C38_Unpartitioned ==
    IsNil(stencil) =>
        /\ ret.op = "filter" => ret.b
        /\ ret.op = "Get" => ret.slice = GetAll(hashnodes[SliceType])
        /\ \A d \in Range(SortedNames) :
              /\ \A r \in StencilInputs :
                    DoesDistOwnResource(stencil, r, d, rng).b
              /\ GetForDist(hashnodes[SliceType], stencil, d, rng, now)
                    = [h |-> hashnodes[SliceType], err |-> FALSE, rng |-> rng]

\* Get for moat has returned all the resources of an unpartitioned ring.
C38_Witness ==
    /\ IsNil(stencil)
    /\ ret.op = "Get" /\ ret.dist = "moat"
    /\ Len(ret.slice) = MaxUid
    /\ ret.slice = GetAll(hashnodes[SliceType])

(***************************************************************************)
(* Properties of the submissions of an ingestion cycle.                    *)
(***************************************************************************)
\* C39: a bridge is submitted itself exactly when it has no transport and
\* its address is not invalid, never when it has a transport, and no
\* transport with an invalid address is submitted.
C39_Vanilla ==
    ret.op = "reload" =>
        LET vanilla(b) ==
                \E i \in 1..Len(ret.submitted) :
                   /\ ret.submitted[i].Fingerprint = b.Fingerprint
                   /\ ret.submitted[i].k = 0
        IN  /\ \A b \in ret.bridges :
                  /\ vanilla(b) <=>
                        (Len(b.Transports) = 0 /\ ~Invalid(b.Address))
                  /\ Len(b.Transports) >= 1 => ~vanilla(b)
                  /\ \A k \in 1..Len(b.Transports) :
                        Invalid(b.Transports[k]) =>
                           Submission(b, k) \notin Range(ret.submitted)
            /\ \A i \in 1..Len(ret.submitted) :
                  ~Invalid(ret.submitted[i].Address)

\* A cycle with a bridge without transports that was submitted, and a
\* bridge of valid address whose only valid transport was submitted alone.
C39_Witness ==
    /\ ret.op = "reload"
    /\ \E b, c \in ret.bridges :
          /\ Len(b.Transports) = 0 /\ b.Address = "public"
          /\ Submission(b, 0) \in Range(ret.submitted)
          /\ c.Address = "public" /\ c.Transports = <<"loopback", "public">>
          /\ Submission(c, 2) \in Range(ret.submitted)
          /\ Len(ret.submitted) = 2

====
